------------------------------ MODULE Spec2Model ------------------------------
(***************************************************************************)
(* The Bronze -> Silver -> Gold transformation framework of lakehouse-demo: *)
(* the class table of the transformers, the load -> transform -> save      *)
(* lifecycle of SilverTransformer.run and GoldTransformer.run, the hook     *)
(* pipeline of transform(), the Gold assemblers' joins at the level of      *)
(* column names and anchor keys, and the orchestrator of run_all.py.        *)
(*                                                                         *)
(* A data frame is a record: cols is the ordered column names, allnull the  *)
(* columns in which every value is null, nulls the columns in which some    *)
(* but not all values are null (followed through the Bronze -> Silver       *)
(* stages), keys the set of anchor-key values its rows carry (the row set,  *)
(* without multiplicity), and exc the exception raised while computing it   *)
(* ("none" when there is none).                                             *)
(***************************************************************************)
EXTENDS Integers, Sequences, FiniteSets, TLC

VARIABLES
  entry,         \* the call under way: "run_all", "_run_transformers" or "transform"
  fs,            \* the files under data/: path -> file state
  transformers,  \* the list _run_transformers iterates
  label,         \* its label argument
  idx,           \* how many transformers of the list have been run
  failed,        \* _run_transformers' local list failed
  runlog,        \* what the run_all logger has received
  hist,          \* one record per run() attempted: its calls, log and exception
  pc,            \* position of the call under way
  exc,           \* the exception that escaped the call under way ("none")
  ret,           \* the failure lists the _run_transformers calls have returned
  tcls,          \* transform(): the class whose transform() runs and its argument
  tdf,           \* transform(): the local df
  tdone          \* transform(): the stage calls made so far

vars == <<entry, fs, transformers, label, idx, failed, runlog, hist, pc, exc, ret,
          tcls, tdf, tdone>>

-------------------------------------------------------------------------------
(* Bounds of the model *)

\* transformers in a list handed to _run_transformers
MaxList == 3
\* anchor-key values a non-empty table carries: 1 .. MaxKey
MaxKey == 2
\* rows of a table that is joined or imputed row by row
MaxRows == 2
\* customers in a batch whose credit limits are imputed
MaxCustomers == 4

-------------------------------------------------------------------------------
(* The class table: base_transformer.py *)

BaseTransformer ==
  [ name |-> "BaseTransformer", base |-> "ABC", abstract |-> {"run"},
    defines |-> {"__init__", "_check_output_filename", "load_bronze", "load_silver",
                 "_drop_empty_columns", "_to_datetime", "_validate_nulls",
                 "_save_parquet", "save_silver", "save_gold", "run"} ]

SilverTransformer ==
  [ name |-> "SilverTransformer", base |-> "BaseTransformer", abstract |-> {},
    defines |-> {"__init__", "_rename_columns", "_cast_dtypes", "_handle_nulls",
                 "transform", "run"},
    stages |-> <<"_drop_empty_columns", "_rename_columns", "_cast_dtypes", "_handle_nulls">> ]

GoldTransformer ==
  [ name |-> "GoldTransformer", base |-> "BaseTransformer", abstract |-> {"transform"},
    defines |-> {"__init__", "transform", "run"} ]

-------------------------------------------------------------------------------
(* The Bronze -> Silver transformers: one record per class.  rename is the    *)
(* column_mapping of _rename_columns; cast the column accesses of            *)
(* _cast_dtypes in statement order; expected and required the columns        *)
(* _handle_nulls reads; stages the calls of the class's own transform().     *)

OrderTransformer ==
  [ name |-> "OrderTransformer", base |-> "BaseTransformer",
    abstract |-> {}, defines |-> {"__init__", "_cast_dtypes", "_handle_nulls", "_rename_columns", "transform"},
    output |-> "orders.parquet", bronze |-> "sales.order.csv", silver_dir |-> "sales",
    rename |-> <<
      <<"OrderID", "order_id">>, <<"CustomerID", "customer_id">>,
      <<"SalespersonPersonID", "salesperson_id">>, <<"PickedByPersonID", "picked_by_id">>,
      <<"ContactPersonID", "contact_person_id">>, <<"BackorderOrderID", "backorder_order_id">>,
      <<"OrderDate", "order_date">>, <<"ExpectedDeliveryDate", "expected_delivery_date">>,
      <<"CustomerPurchaseOrderNumber", "customer_po_number">>, <<"IsUndersupplyBackordered", "is_undersupply_backordered">>,
      <<"PickingCompletedWhen", "picking_completed_when">>, <<"LastEditedBy", "last_edited_by">>,
      <<"LastEditedWhen", "last_edited_when">>, <<"LastEditedWhen_parsed", "last_edited_when_parsed">>
    >>,
    cast |-> <<<<"datetime", "order_date">>, <<"datetime", "expected_delivery_date">>, <<"datetime", "picking_completed_when">>, <<"datetime", "last_edited_when">>, <<"Int64", "picked_by_id">>, <<"Int64", "backorder_order_id">>, <<"drop", "last_edited_when_parsed">>>>,
    expected |-> <<"picked_by_id", "backorder_order_id", "picking_completed_when">>,
    required |-> <<"order_id", "customer_id", "order_date", "salesperson_id">>,
    stages |-> <<"_drop_empty_columns", "_rename_columns", "_cast_dtypes", "_handle_nulls">> ]

OrderLineTransformer ==
  [ name |-> "OrderLineTransformer", base |-> "BaseTransformer",
    abstract |-> {}, defines |-> {"__init__", "_cast_dtypes", "_handle_nulls", "_rename_columns", "transform"},
    output |-> "order_lines.parquet", bronze |-> "sales.orderline.csv", silver_dir |-> "sales",
    rename |-> <<
      <<"OrderLineID", "order_line_id">>, <<"OrderID", "order_id">>,
      <<"StockItemID", "stock_item_id">>, <<"Description", "description">>,
      <<"PackageTypeID", "package_type_id">>, <<"Quantity", "quantity">>,
      <<"UnitPrice", "unit_price">>, <<"TaxRate", "tax_rate">>,
      <<"PickedQuantity", "picked_quantity">>, <<"PickingCompletedWhen", "picking_completed_when">>,
      <<"LastEditedBy", "last_edited_by">>, <<"LastEditedWhen", "last_edited_when">>,
      <<"LastEditedWhen_parsed", "last_edited_when_parsed">>
    >>,
    cast |-> <<<<"datetime", "picking_completed_when">>, <<"datetime", "last_edited_when">>, <<"drop", "last_edited_when_parsed">>>>,
    expected |-> <<"picking_completed_when">>,
    required |-> <<"order_line_id", "order_id", "stock_item_id", "quantity", "unit_price">>,
    stages |-> <<"_drop_empty_columns", "_rename_columns", "_cast_dtypes", "_handle_nulls">> ]

CustomerTransformer ==
  [ name |-> "CustomerTransformer", base |-> "BaseTransformer",
    abstract |-> {}, defines |-> {"__init__", "_cast_dtypes", "_handle_nulls", "_rename_columns", "transform"},
    output |-> "customers.parquet", bronze |-> "sales.customer.csv", silver_dir |-> "sales",
    rename |-> <<
      <<"CustomerID", "customer_id">>, <<"CustomerName", "customer_name">>,
      <<"BillToCustomerID", "bill_to_customer_id">>, <<"CustomerCategoryID", "customer_category_id">>,
      <<"BuyingGroupID", "buying_group_id">>, <<"PrimaryContactPersonID", "primary_contact_person_id">>,
      <<"AlternateContactPersonID", "alternate_contact_person_id">>, <<"DeliveryMethodID", "delivery_method_id">>,
      <<"DeliveryCityID", "delivery_city_id">>, <<"PostalCityID", "postal_city_id">>,
      <<"CreditLimit", "credit_limit">>, <<"AccountOpenedDate", "account_opened_date">>,
      <<"StandardDiscountPercentage", "standard_discount_percentage">>, <<"IsStatementSent", "is_statement_sent">>,
      <<"IsOnCreditHold", "is_on_credit_hold">>, <<"PaymentDays", "payment_days">>,
      <<"PhoneNumber", "phone_number">>, <<"FaxNumber", "fax_number">>,
      <<"WebsiteURL", "website_url">>, <<"DeliveryAddressLine1", "delivery_address_line1">>,
      <<"DeliveryAddressLine2", "delivery_address_line2">>, <<"DeliveryPostalCode", "delivery_postal_code">>,
      <<"DeliveryLocation", "delivery_location">>, <<"PostalAddressLine1", "postal_address_line1">>,
      <<"PostalAddressLine2", "postal_address_line2">>, <<"PostalPostalCode", "postal_postal_code">>,
      <<"LastEditedBy", "last_edited_by">>, <<"ValidFrom", "valid_from">>,
      <<"ValidTo", "valid_to">>, <<"ValidFrom_parsed", "valid_from_parsed">>
    >>,
    cast |-> <<<<"datetime", "account_opened_date">>, <<"datetime", "valid_from">>, <<"datetime", "valid_to">>, <<"Int64", "buying_group_id">>, <<"Int64", "alternate_contact_person_id">>, <<"drop", "valid_from_parsed">>>>,
    expected |-> <<"buying_group_id", "alternate_contact_person_id", "credit_limit">>,
    required |-> <<"customer_id", "customer_name", "customer_category_id", "delivery_method_id", "account_opened_date">>,
    stages |-> <<"_drop_empty_columns", "_rename_columns", "_cast_dtypes", "_handle_nulls">> ]

InvoiceTransformer ==
  [ name |-> "InvoiceTransformer", base |-> "BaseTransformer",
    abstract |-> {}, defines |-> {"__init__", "_cast_dtypes", "_handle_nulls", "_rename_columns", "transform"},
    output |-> "invoices.parquet", bronze |-> "sales.invoices.csv", silver_dir |-> "sales",
    rename |-> <<
      <<"InvoiceID", "invoice_id">>, <<"CustomerID", "customer_id">>,
      <<"BillToCustomerID", "bill_to_customer_id">>, <<"OrderID", "order_id">>,
      <<"DeliveryMethodID", "delivery_method_id">>, <<"ContactPersonID", "contact_person_id">>,
      <<"AccountsPersonID", "accounts_person_id">>, <<"SalespersonPersonID", "salesperson_id">>,
      <<"PackedByPersonID", "packed_by_id">>, <<"InvoiceDate", "invoice_date">>,
      <<"CustomerPurchaseOrderNumber", "customer_po_number">>, <<"IsCreditNote", "is_credit_note">>,
      <<"DeliveryInstructions", "delivery_instructions">>, <<"TotalDryItems", "total_dry_items">>,
      <<"TotalChillerItems", "total_chiller_items">>, <<"ReturnedDeliveryData", "returned_delivery_data">>,
      <<"ConfirmedDeliveryTime", "confirmed_delivery_time">>, <<"ConfirmedReceivedBy", "confirmed_received_by">>,
      <<"LastEditedBy", "last_edited_by">>, <<"LastEditedWhen", "last_edited_when">>,
      <<"LastEditedWhen_parsed", "last_edited_when_parsed">>
    >>,
    cast |-> <<<<"datetime", "invoice_date">>, <<"datetime", "confirmed_delivery_time">>, <<"datetime", "last_edited_when">>, <<"drop", "last_edited_when_parsed">>>>,
    expected |-> <<>>,
    required |-> <<"invoice_id", "customer_id", "order_id", "invoice_date", "salesperson_id">>,
    stages |-> <<"_drop_empty_columns", "_rename_columns", "_cast_dtypes", "_handle_nulls">> ]

InvoiceLineTransformer ==
  [ name |-> "InvoiceLineTransformer", base |-> "BaseTransformer",
    abstract |-> {}, defines |-> {"__init__", "_cast_dtypes", "_handle_nulls", "_rename_columns", "transform"},
    output |-> "invoice_lines.parquet", bronze |-> "sales.incvoiceslines.csv", silver_dir |-> "sales",
    rename |-> <<
      <<"InvoiceLineID", "invoice_line_id">>, <<"InvoiceID", "invoice_id">>,
      <<"StockItemID", "stock_item_id">>, <<"Description", "description">>,
      <<"PackageTypeID", "package_type_id">>, <<"Quantity", "quantity">>,
      <<"UnitPrice", "unit_price">>, <<"TaxRate", "tax_rate">>,
      <<"TaxAmount", "tax_amount">>, <<"LineProfit", "line_profit">>,
      <<"ExtendedPrice", "extended_price">>, <<"LastEditedBy", "last_edited_by">>,
      <<"LastEditedWhen", "last_edited_when">>, <<"LastEditedWhen_parsed", "last_edited_when_parsed">>
    >>,
    cast |-> <<<<"datetime", "last_edited_when">>, <<"drop", "last_edited_when_parsed">>>>,
    expected |-> <<>>,
    required |-> <<"invoice_line_id", "invoice_id", "stock_item_id", "quantity", "unit_price", "extended_price">>,
    stages |-> <<"_drop_empty_columns", "_rename_columns", "_cast_dtypes", "_handle_nulls">> ]

PurchaseOrderTransformer ==
  [ name |-> "PurchaseOrderTransformer", base |-> "BaseTransformer",
    abstract |-> {}, defines |-> {"__init__", "_cast_dtypes", "_handle_nulls", "_rename_columns", "transform"},
    output |-> "purchase_orders.parquet", bronze |-> "purchase.order.csv", silver_dir |-> "purchasing",
    rename |-> <<
      <<"PurchaseOrderID", "purchase_order_id">>, <<"SupplierID", "supplier_id">>,
      <<"OrderDate", "order_date">>, <<"DeliveryMethodID", "delivery_method_id">>,
      <<"ContactPersonID", "contact_person_id">>, <<"ExpectedDeliveryDate", "expected_delivery_date">>,
      <<"SupplierReference", "supplier_reference">>, <<"IsOrderFinalized", "is_order_finalized">>,
      <<"LastEditedBy", "last_edited_by">>, <<"LastEditedWhen", "last_edited_when">>,
      <<"LastEditedWhen_parsed", "last_edited_when_parsed">>
    >>,
    cast |-> <<<<"datetime", "order_date">>, <<"datetime", "expected_delivery_date">>, <<"datetime", "last_edited_when">>, <<"drop", "last_edited_when_parsed">>>>,
    expected |-> <<>>,
    required |-> <<"purchase_order_id", "supplier_id", "order_date", "delivery_method_id">>,
    stages |-> <<"_drop_empty_columns", "_rename_columns", "_cast_dtypes", "_handle_nulls">> ]

PurchaseOrderLineTransformer ==
  [ name |-> "PurchaseOrderLineTransformer", base |-> "BaseTransformer",
    abstract |-> {}, defines |-> {"__init__", "_cast_dtypes", "_handle_nulls", "_rename_columns", "transform"},
    output |-> "purchase_order_lines.parquet", bronze |-> "purchase.orderline.csv", silver_dir |-> "purchasing",
    rename |-> <<
      <<"PurchaseOrderLineID", "purchase_order_line_id">>, <<"PurchaseOrderID", "purchase_order_id">>,
      <<"StockItemID", "stock_item_id">>, <<"OrderedOuters", "ordered_outers">>,
      <<"Description", "description">>, <<"ReceivedOuters", "received_outers">>,
      <<"PackageTypeID", "package_type_id">>, <<"ExpectedUnitPricePerOuter", "expected_unit_price_per_outer">>,
      <<"LastReceiptDate", "last_receipt_date">>, <<"IsOrderLineFinalized", "is_order_line_finalized">>,
      <<"LastEditedBy", "last_edited_by">>, <<"LastEditedWhen", "last_edited_when">>,
      <<"LastEditedWhen_parsed", "last_edited_when_parsed">>
    >>,
    cast |-> <<<<"datetime", "last_receipt_date">>, <<"datetime", "last_edited_when">>, <<"drop", "last_edited_when_parsed">>>>,
    expected |-> <<>>,
    required |-> <<"purchase_order_line_id", "purchase_order_id", "stock_item_id", "ordered_outers", "expected_unit_price_per_outer">>,
    stages |-> <<"_drop_empty_columns", "_rename_columns", "_cast_dtypes", "_handle_nulls">> ]

SupplierTransformer ==
  [ name |-> "SupplierTransformer", base |-> "BaseTransformer",
    abstract |-> {}, defines |-> {"__init__", "_cast_dtypes", "_handle_nulls", "_rename_columns", "transform"},
    output |-> "suppliers.parquet", bronze |-> "purchasing.suppliers.csv", silver_dir |-> "purchasing",
    rename |-> <<
      <<"SupplierID", "supplier_id">>, <<"SupplierName", "supplier_name">>,
      <<"SupplierCategoryID", "supplier_category_id">>, <<"PrimaryContactPersonID", "primary_contact_person_id">>,
      <<"AlternateContactPersonID", "alternate_contact_person_id">>, <<"DeliveryMethodID", "delivery_method_id">>,
      <<"DeliveryCityID", "delivery_city_id">>, <<"PostalCityID", "postal_city_id">>,
      <<"SupplierReference", "supplier_reference">>, <<"BankAccountName", "bank_account_name">>,
      <<"BankAccountBranch", "bank_account_branch">>, <<"BankAccountCode", "bank_account_code">>,
      <<"BankAccountNumber", "bank_account_number">>, <<"BankInternationalCode", "bank_international_code">>,
      <<"PaymentDays", "payment_days">>, <<"InternalComments", "internal_comments">>,
      <<"PhoneNumber", "phone_number">>, <<"FaxNumber", "fax_number">>,
      <<"WebsiteURL", "website_url">>, <<"DeliveryAddressLine1", "delivery_address_line1">>,
      <<"DeliveryAddressLine2", "delivery_address_line2">>, <<"DeliveryPostalCode", "delivery_postal_code">>,
      <<"DeliveryLocation", "delivery_location">>, <<"PostalAddressLine1", "postal_address_line1">>,
      <<"PostalAddressLine2", "postal_address_line2">>, <<"PostalPostalCode", "postal_postal_code">>,
      <<"LastEditedBy", "last_edited_by">>, <<"ValidFrom", "valid_from">>,
      <<"ValidTo", "valid_to">>
    >>,
    cast |-> <<<<"datetime", "valid_from">>, <<"datetime", "valid_to">>, <<"Int64", "delivery_method_id">>>>,
    expected |-> <<"delivery_method_id", "delivery_address_line1", "internal_comments">>,
    required |-> <<"supplier_id", "supplier_name", "supplier_category_id">>,
    stages |-> <<"_drop_empty_columns", "_rename_columns", "_cast_dtypes", "_handle_nulls">> ]

SupplierTransactionTransformer ==
  [ name |-> "SupplierTransactionTransformer", base |-> "BaseTransformer",
    abstract |-> {}, defines |-> {"__init__", "_cast_dtypes", "_handle_nulls", "_rename_columns", "transform"},
    output |-> "supplier_transactions.parquet", bronze |-> "purchasing.supplierstransactions.csv", silver_dir |-> "purchasing",
    rename |-> <<
      <<"SupplierTransactionID", "supplier_transaction_id">>, <<"SupplierID", "supplier_id">>,
      <<"TransactionTypeID", "transaction_type_id">>, <<"PurchaseOrderID", "purchase_order_id">>,
      <<"PaymentMethodID", "payment_method_id">>, <<"SupplierInvoiceNumber", "supplier_invoice_number">>,
      <<"TransactionDate", "transaction_date">>, <<"AmountExcludingTax", "amount_excluding_tax">>,
      <<"TaxAmount", "tax_amount">>, <<"TransactionAmount", "transaction_amount">>,
      <<"OutstandingBalance", "outstanding_balance">>, <<"FinalizationDate", "finalization_date">>,
      <<"IsFinalized", "is_finalized">>, <<"LastEditedBy", "last_edited_by">>,
      <<"LastEditedWhen", "last_edited_when">>
    >>,
    cast |-> <<<<"datetime", "transaction_date">>, <<"datetime", "finalization_date">>, <<"datetime", "last_edited_when">>, <<"Int64", "purchase_order_id">>, <<"Int64", "supplier_invoice_number">>>>,
    expected |-> <<"purchase_order_id", "supplier_invoice_number", "finalization_date">>,
    required |-> <<"supplier_transaction_id", "supplier_id", "transaction_date", "transaction_amount">>,
    stages |-> <<"_drop_empty_columns", "_rename_columns", "_cast_dtypes", "_handle_nulls">> ]

CitiesTransformer ==
  [ name |-> "CitiesTransformer", base |-> "BaseTransformer",
    abstract |-> {}, defines |-> {"__init__", "_cast_dtypes", "_handle_nulls", "_rename_columns", "transform"},
    output |-> "cities.parquet", bronze |-> "application.cities.csv", silver_dir |-> "dimensions",
    rename |-> <<
      <<"CityID", "city_id">>, <<"CityName", "city_name">>,
      <<"StateProvinceID", "state_province_id">>, <<"Location", "location">>,
      <<"LatestRecordedPopulation", "latest_recorded_population">>, <<"LastEditedBy", "last_edited_by">>,
      <<"ValidFrom", "valid_from">>, <<"ValidTo", "valid_to">>
    >>,
    cast |-> <<<<"datetime", "valid_from">>, <<"datetime", "valid_to">>, <<"Int64", "latest_recorded_population">>>>,
    expected |-> <<"latest_recorded_population", "valid_to">>,
    required |-> <<"city_id", "city_name", "state_province_id">>,
    stages |-> <<"_drop_empty_columns", "_rename_columns", "_cast_dtypes", "_handle_nulls">> ]

ProvinceTransformer ==
  [ name |-> "ProvinceTransformer", base |-> "BaseTransformer",
    abstract |-> {}, defines |-> {"__init__", "_cast_dtypes", "_handle_nulls", "_rename_columns", "transform"},
    output |-> "provinces.parquet", bronze |-> "application.province.csv", silver_dir |-> "dimensions",
    rename |-> <<
      <<"StateProvinceID", "state_province_id">>, <<"StateProvinceCode", "state_province_code">>,
      <<"StateProvinceName", "state_province_name">>, <<"CountryID", "country_id">>,
      <<"SalesTerritory", "sales_territory">>, <<"Border", "border">>,
      <<"LatestRecordedPopulation", "latest_recorded_population">>, <<"LastEditedBy", "last_edited_by">>,
      <<"ValidFrom", "valid_from">>, <<"ValidTo", "valid_to">>
    >>,
    cast |-> <<<<"datetime", "valid_from">>, <<"datetime", "valid_to">>>>,
    expected |-> <<"border", "valid_to">>,
    required |-> <<"state_province_id", "state_province_name", "country_id">>,
    stages |-> <<"_drop_empty_columns", "_rename_columns", "_cast_dtypes", "_handle_nulls">> ]

PeopleTransformer ==
  [ name |-> "PeopleTransformer", base |-> "BaseTransformer",
    abstract |-> {}, defines |-> {"__init__", "_cast_dtypes", "_handle_nulls", "_rename_columns", "transform"},
    output |-> "people.parquet", bronze |-> "application.people.csv", silver_dir |-> "dimensions",
    rename |-> <<
      <<"PersonID", "person_id">>, <<"FullName", "full_name">>,
      <<"PreferredName", "preferred_name">>, <<"SearchName", "search_name">>,
      <<"IsPermittedToLogon", "is_permitted_to_logon">>, <<"LogonName", "logon_name">>,
      <<"IsExternalLogonProvider", "is_external_logon_provider">>, <<"IsSystemUser", "is_system_user">>,
      <<"IsEmployee", "is_employee">>, <<"IsSalesperson", "is_salesperson">>,
      <<"PhoneNumber", "phone_number">>, <<"FaxNumber", "fax_number">>,
      <<"EmailAddress", "email_address">>, <<"LastEditedBy", "last_edited_by">>,
      <<"ValidFrom", "valid_from">>, <<"ValidTo", "valid_to">>,
      <<"ValidFrom_parsed", "valid_from_parsed">>
    >>,
    cast |-> <<<<"datetime", "valid_from">>, <<"datetime", "valid_to">>, <<"drop", "valid_from_parsed">>>>,
    expected |-> <<"valid_to">>,
    required |-> <<"person_id", "full_name", "is_employee", "is_salesperson">>,
    stages |-> <<"_drop_empty_columns", "_rename_columns", "_cast_dtypes", "_handle_nulls">> ]

StockItemTransformer ==
  [ name |-> "StockItemTransformer", base |-> "SilverTransformer",
    abstract |-> {}, defines |-> {"__init__", "_cast_dtypes", "_handle_nulls", "_rename_columns"},
    output |-> "stock_items.parquet", bronze |-> "warehouse.stockitems.csv", silver_dir |-> "dimensions",
    rename |-> <<
      <<"StockItemID", "stock_item_id">>, <<"StockItemName", "stock_item_name">>,
      <<"SupplierID", "supplier_id">>, <<"ColorID", "color_id">>,
      <<"UnitPackageID", "unit_package_id">>, <<"OuterPackageID", "outer_package_id">>,
      <<"Brand", "brand">>, <<"Size", "size">>,
      <<"LeadTimeDays", "lead_time_days">>, <<"QuantityPerOuter", "quantity_per_outer">>,
      <<"IsChillerStock", "is_chiller_stock">>, <<"Barcode", "barcode">>,
      <<"TaxRate", "tax_rate">>, <<"UnitPrice", "unit_price">>,
      <<"RecommendedRetailPrice", "recommended_retail_price">>, <<"TypicalWeightPerUnit", "typical_weight_per_unit">>,
      <<"MarketingComments", "marketing_comments">>, <<"CustomFields", "custom_fields">>,
      <<"Tags", "tags">>, <<"SearchDetails", "search_details">>,
      <<"LastEditedBy", "last_edited_by">>, <<"ValidFrom", "valid_from">>,
      <<"ValidTo", "valid_to">>
    >>,
    cast |-> <<<<"datetime", "valid_from">>, <<"datetime", "valid_to">>, <<"Int64", "color_id">>, <<"str", "barcode">>>>,
    expected |-> <<"color_id", "brand", "size", "barcode", "marketing_comments", "valid_to">>,
    required |-> <<"stock_item_id", "stock_item_name", "supplier_id", "unit_price", "tax_rate">>,
    stages |-> <<>> ]

StockItemHoldingsTransformer ==
  [ name |-> "StockItemHoldingsTransformer", base |-> "BaseTransformer",
    abstract |-> {}, defines |-> {"__init__", "_cast_dtypes", "_handle_nulls", "_rename_columns", "transform"},
    output |-> "stock_item_holdings.parquet", bronze |-> "warehouse.stockitemholdings.csv", silver_dir |-> "dimensions",
    rename |-> <<
      <<"StockItemID", "stock_item_id">>, <<"QuantityOnHand", "quantity_on_hand">>,
      <<"BinLocation", "bin_location">>, <<"LastStocktakeQuantity", "last_stocktake_quantity">>,
      <<"LastCostPrice", "last_cost_price">>, <<"ReorderLevel", "reorder_level">>,
      <<"TargetStockLevel", "target_stock_level">>, <<"LastEditedBy", "last_edited_by">>,
      <<"LastEditedWhen", "last_edited_when">>
    >>,
    cast |-> <<<<"datetime", "last_edited_when">>>>,
    expected |-> <<>>,
    required |-> <<"stock_item_id", "quantity_on_hand", "reorder_level", "target_stock_level", "last_cost_price">>,
    stages |-> <<"_drop_empty_columns", "_rename_columns", "_cast_dtypes", "_handle_nulls">> ]

-------------------------------------------------------------------------------
(* The config-driven transformer.  config/dimensions.yml is read at import   *)
(* (dimension_transformer.py:8-11); its entries here are the four dimension  *)
(* files the Gold assemblers load that no bespoke transformer writes, with   *)
(* the columns those assemblers select.                                      *)

DIMENSIONS_CONFIG ==
  [ n \in {"colors", "countries", "delivery_methods", "package_types"} |->
      CASE n = "colors" ->
             [ bronze_file |-> "warehouse.colors.csv", silver_file |-> "colors.parquet",
               rename |-> << <<"ColorID", "color_id">>, <<"ColorName", "color_name">>,
                             <<"ValidFrom", "valid_from">>, <<"ValidTo", "valid_to">> >>,
               date_columns |-> <<"ValidFrom", "ValidTo">> ]
        [] n = "countries" ->
             [ bronze_file |-> "application.countries.csv", silver_file |-> "countries.parquet",
               rename |-> << <<"CountryID", "country_id">>, <<"CountryName", "country_name">>,
                             <<"IsoAlpha3Code", "iso_alpha3_code">>, <<"Continent", "continent">>,
                             <<"Region", "region">>, <<"Subregion", "subregion">>,
                             <<"ValidFrom", "valid_from">>, <<"ValidTo", "valid_to">> >>,
               date_columns |-> <<"ValidFrom", "ValidTo">> ]
        [] n = "delivery_methods" ->
             [ bronze_file |-> "application.deliverymethods.csv",
               silver_file |-> "delivery_methods.parquet",
               rename |-> << <<"DeliveryMethodID", "delivery_method_id">>,
                             <<"DeliveryMethodName", "delivery_method_name">>,
                             <<"ValidFrom", "valid_from">>, <<"ValidTo", "valid_to">> >>,
               date_columns |-> <<"ValidFrom", "ValidTo">> ]
        [] n = "package_types" ->
             [ bronze_file |-> "warehouse.packagetypes.csv",
               silver_file |-> "package_types.parquet",
               rename |-> << <<"PackageTypeID", "package_type_id">>,
                             <<"PackageTypeName", "package_type_name">>,
                             <<"ValidFrom", "valid_from">>, <<"ValidTo", "valid_to">> >>,
               date_columns |-> <<"ValidFrom", "ValidTo">> ] ]

\* dict.get(col, col) over a rename map held as a sequence of pairs
RenameGet(pairs, col) ==
  IF \E i \in DOMAIN pairs : pairs[i][1] = col
  THEN LET i == CHOOSE j \in DOMAIN pairs : pairs[j][1] = col IN pairs[i][2]
  ELSE col

\* Variant: the casts are not guarded by "if col in df.columns".
DimensionTransformer_unguarded(dimension_name) ==
  LET config == IF dimension_name \in DOMAIN DIMENSIONS_CONFIG
                THEN DIMENSIONS_CONFIG[dimension_name]
                ELSE [ bronze_file |-> "", silver_file |-> "", rename |-> <<>>,
                       date_columns |-> <<>> ]   \* never used: __init__ raises
  IN
  [ name |-> "DimensionTransformer", base |-> "BaseTransformer",
    abstract |-> {}, defines |-> {"__init__", "_cast_dtypes", "_handle_nulls",
                                  "_rename_columns", "transform"},
    output |-> config.silver_file, bronze |-> config.bronze_file,
    silver_dir |-> "dimensions",
    rename |-> config.rename,
    cast |-> [ i \in DOMAIN config.date_columns |->
                 <<"datetime", RenameGet(config.rename, config.date_columns[i])>> ],
    expected |-> <<>>,
    required |-> <<>>,
    stages |-> <<"_drop_empty_columns", "_rename_columns", "_cast_dtypes", "_handle_nulls">> ]

\* The class as DimensionTransformer(dimension_name) configures itself:
\* _output_filename, bronze_path and the hooks' data all come from the entry.
DimensionTransformer(dimension_name) ==
  LET config == IF dimension_name \in DOMAIN DIMENSIONS_CONFIG
                THEN DIMENSIONS_CONFIG[dimension_name]
                ELSE [ bronze_file |-> "", silver_file |-> "", rename |-> <<>>,
                       date_columns |-> <<>> ]   \* never used: __init__ raises
  IN
  [ name |-> "DimensionTransformer", base |-> "BaseTransformer",
    abstract |-> {}, defines |-> {"__init__", "_cast_dtypes", "_handle_nulls",
                                  "_rename_columns", "transform"},
    output |-> config.silver_file, bronze |-> config.bronze_file,
    silver_dir |-> "dimensions",
    rename |-> config.rename,
    cast |-> [ i \in DOMAIN config.date_columns |->
                 <<"datetime_if_present", RenameGet(config.rename, config.date_columns[i])>> ],
    expected |-> <<>>,
    required |-> <<>>,
    stages |-> <<"_drop_empty_columns", "_rename_columns", "_cast_dtypes", "_handle_nulls">> ]

-------------------------------------------------------------------------------
(* The Silver -> Gold assemblers run_all registers *)

DimCustomerTransformer ==
  [ name |-> "DimCustomerTransformer", base |-> "GoldTransformer", abstract |-> {},
    defines |-> {"__init__", "_load_silver_tables", "_build_responsible_market",
                 "_build_customer_dimension", "_select_columns", "_impute_credit_limit",
                 "_impute_contact_info", "_rename_columns", "_reorder_columns", "transform"},
    output |-> "dim_customer.parquet" ]

DimGeographyTransformer ==
  [ name |-> "DimGeographyTransformer", base |-> "GoldTransformer", abstract |-> {},
    defines |-> {"__init__", "_load_silver_tables", "_build_responsible_market",
                 "_select_columns", "_rename_columns", "_reorder_columns", "transform"},
    output |-> "dim_geography.parquet" ]

DimPeopleTransformer ==
  [ name |-> "DimPeopleTransformer", base |-> "GoldTransformer", abstract |-> {},
    defines |-> {"__init__", "_load_silver_tables", "_build_people_dimension",
                 "_select_columns", "_filter_person", "transform"},
    output |-> "dim_people.parquet" ]

DimStockItemTransformer ==
  [ name |-> "DimStockItemTransformer", base |-> "GoldTransformer", abstract |-> {},
    defines |-> {"__init__", "_load_silver_tables", "_build_stock_item_dimension",
                 "_select_columns", "_rename_columns", "transform"},
    output |-> "dim_stock_item.parquet" ]

DimSupplierTransformer ==
  [ name |-> "DimSupplierTransformer", base |-> "GoldTransformer", abstract |-> {},
    defines |-> {"__init__", "_load_silver_tables", "_build_supplier_dimension",
                 "_select_columns", "_impute_supplier_fields", "_rename_columns",
                 "transform"},
    output |-> "dim_supplier.parquet" ]

-------------------------------------------------------------------------------
(* Objects, method resolution and construction *)

SilverClassNames ==
  { "OrderTransformer", "OrderLineTransformer", "CustomerTransformer",
    "InvoiceTransformer", "InvoiceLineTransformer", "PurchaseOrderTransformer",
    "PurchaseOrderLineTransformer", "SupplierTransformer",
    "SupplierTransactionTransformer", "CitiesTransformer", "ProvinceTransformer",
    "PeopleTransformer", "StockItemTransformer", "StockItemHoldingsTransformer" }

GoldClassNames ==
  { "DimCustomerTransformer", "DimGeographyTransformer", "DimPeopleTransformer",
    "DimStockItemTransformer", "DimSupplierTransformer" }

\* The class an import binds to a name; DimensionTransformer takes its argument.
ClassOf(cls, dim) ==
  CASE cls = "BaseTransformer" -> BaseTransformer
    [] cls = "SilverTransformer" -> SilverTransformer
    [] cls = "GoldTransformer" -> GoldTransformer
    [] cls = "OrderTransformer" -> OrderTransformer
    [] cls = "OrderLineTransformer" -> OrderLineTransformer
    [] cls = "CustomerTransformer" -> CustomerTransformer
    [] cls = "InvoiceTransformer" -> InvoiceTransformer
    [] cls = "InvoiceLineTransformer" -> InvoiceLineTransformer
    [] cls = "PurchaseOrderTransformer" -> PurchaseOrderTransformer
    [] cls = "PurchaseOrderLineTransformer" -> PurchaseOrderLineTransformer
    [] cls = "SupplierTransformer" -> SupplierTransformer
    [] cls = "SupplierTransactionTransformer" -> SupplierTransactionTransformer
    [] cls = "CitiesTransformer" -> CitiesTransformer
    [] cls = "ProvinceTransformer" -> ProvinceTransformer
    [] cls = "PeopleTransformer" -> PeopleTransformer
    [] cls = "StockItemTransformer" -> StockItemTransformer
    [] cls = "StockItemHoldingsTransformer" -> StockItemHoldingsTransformer
    [] cls = "DimensionTransformer" -> DimensionTransformer(dim)
    [] cls = "DimCustomerTransformer" -> DimCustomerTransformer
    [] cls = "DimGeographyTransformer" -> DimGeographyTransformer
    [] cls = "DimPeopleTransformer" -> DimPeopleTransformer
    [] cls = "DimStockItemTransformer" -> DimStockItemTransformer
    [] cls = "DimSupplierTransformer" -> DimSupplierTransformer

\* Python's attribute lookup along the (single-inheritance) base chain: the
\* name of the class whose body defines method m, "object" when none does.
RECURSIVE Definer(_, _)
Definer(c, m) ==
  IF m \in c.defines THEN c.name
  ELSE IF c.base = "ABC" THEN "object"
  ELSE Definer(ClassOf(c.base, ""), m)

\* ABCMeta's __abstractmethods__: the names decorated @abstractmethod whose
\* resolved definition is still the abstract one (base_transformer.py:211, 325).
AbstractMethods(c) ==
  { m \in {"run", "transform"} :
      /\ Definer(c, m) # "object"
      /\ m \in ClassOf(Definer(c, m), "").abstract }

\* Variant: a constructor call never raises; what is wrong with it shows
\* when the object is run.
Construct_deferring(cls, dim) == "none"

\* cls(...) : object.__new__ refuses a class with abstract methods before
\* __init__ runs; DimensionTransformer.__init__ then rejects an unknown name
\* (dimension_transformer.py:25-26).  The result is the exception, or "none".
Construct(cls, dim) ==
  IF AbstractMethods(ClassOf(cls, dim)) # {} THEN "TypeError"
  ELSE IF cls = "DimensionTransformer" /\ dim \notin DOMAIN DIMENSIONS_CONFIG
       THEN "ValueError"
  ELSE "none"

\* A transformer object: its class, its dimension name (DimensionTransformer
\* only) and the value of its _output_filename attribute ("UNSET" when the
\* attribute does not exist).
Obj(cls, dim) == [ cls |-> cls, dim |-> dim, ofn |-> ClassOf(cls, dim).output ]

-------------------------------------------------------------------------------
(* Data frames and files *)

Frame(cols, allnull, keys) ==
  [ exc |-> "none", cols |-> cols, allnull |-> allnull, nulls |-> {}, keys |-> keys ]

\* the frame with nulls among the values of the columns cs
NullsIn(df, cs) == [ df EXCEPT !.nulls = cs ]

\* the value of an expression that raised e
Raised(e) == [ exc |-> e, cols |-> <<>>, allnull |-> {}, nulls |-> {}, keys |-> {} ]

\* pd.DataFrame(): no columns, no rows
EmptyDataFrame == Frame(<<>>, {}, {})

Columns(df) == { df.cols[i] : i \in DOMAIN df.cols }

\* DataFrame.empty: some axis has length 0
Empty(df) == df.cols = <<>> \/ df.keys = {}

Missing ==
  [ kind |-> "missing", cols |-> <<>>, allnull |-> {}, nulls |-> {}, keys |-> {}, gen |-> "none" ]

\* a file holding frame df; gen tells a file of an earlier pipeline run ("old")
\* from one written by the run under way ("new")
FileOf(df, gen) ==
  [ kind |-> "file", cols |-> df.cols, allnull |-> df.allnull, nulls |-> df.nulls,
    keys |-> df.keys, gen |-> gen ]

ReadFile(f) == NullsIn(Frame(f.cols, f.allnull, f.keys), f.nulls)

\* df.to_parquet(output_path): the file at the path is replaced
WriteFile(files, path, df) ==
  [ q \in DOMAIN files \cup {path} |-> IF q = path THEN FileOf(df, "new") ELSE files[q] ]

-------------------------------------------------------------------------------
(* BaseTransformer: the shared methods *)

\* bool(value) is False: the attribute is absent (getattr's default None) or ""
Falsy(v) == v \in {"UNSET", ""}

\* Variant: only an absent attribute counts as unset, "" passes the check.
_check_output_filename_absent_only(obj) ==
  IF obj.ofn = "UNSET" THEN "NotImplementedError" ELSE "none"

\* the exception _check_output_filename raises, "none" when it returns
_check_output_filename(obj) ==
  IF Falsy(obj.ofn) THEN "NotImplementedError" ELSE "none"

\* Variant: no existence test, so pd.read_csv raises on a missing path.
load_bronze_unguarded(self, files) ==
  IF self.bronze \notin DOMAIN files \/ files[self.bronze].kind = "missing"
  THEN [ df |-> Raised("FileNotFoundError"), log |-> <<>> ]
  ELSE [ df |-> ReadFile(files[self.bronze]), log |-> <<"INFO [LOAD] Loaded">> ]

load_bronze(self, files) ==
  IF self.bronze \notin DOMAIN files \/ files[self.bronze].kind = "missing"
  THEN [ df |-> EmptyDataFrame, log |-> <<"ERROR [LOAD] Bronze file not found">> ]
  ELSE [ df |-> ReadFile(files[self.bronze]), log |-> <<"INFO [LOAD] Loaded">> ]

load_silver(files, silver_path) ==
  IF silver_path \notin DOMAIN files \/ files[silver_path].kind = "missing"
  THEN [ df |-> EmptyDataFrame, log |-> <<"ERROR [LOAD] Silver file not found">> ]
  ELSE [ df |-> ReadFile(files[silver_path]), log |-> <<"INFO [LOAD] Loaded">> ]

\* Variant: every column stays.
_drop_empty_columns_keeping(df) == df

\* dropna(axis=1, how="all"): a column goes when it has no non-null value,
\* which is every column of a frame without rows
_drop_empty_columns(df) ==
  NullsIn(Frame(SelectSeq(df.cols, LAMBDA c : c \notin df.allnull /\ df.keys # {}), {}, df.keys),
          IF df.keys = {} THEN {} ELSE df.nulls)

\* the column reads of _validate_nulls, in order: df[col] raises KeyError for
\* a column the frame lacks; the frame itself is returned as it came
RECURSIVE ReadColumns(_, _, _)
ReadColumns(df, names, i) ==
  IF i > Len(names) THEN df
  ELSE IF names[i] \notin Columns(df) THEN Raised("KeyError")
  ELSE ReadColumns(df, names, i + 1)

\* Variant: nulls in a required column are an error.
_validate_nulls_raising(df, expected_nulls, required_columns) ==
  IF ReadColumns(df, expected_nulls \o required_columns, 1).exc # "none"
  THEN Raised("KeyError")
  ELSE IF \E i \in DOMAIN required_columns : required_columns[i] \in df.nulls
  THEN Raised("ValueError")
  ELSE df

_validate_nulls(df, expected_nulls, required_columns) ==
  ReadColumns(df, expected_nulls \o required_columns, 1)

\* null_count > 0 for df[c]
HasNulls(df, c) == df.keys # {} /\ c \in df.nulls \cup df.allnull

\* the lines the two loops log, up to the first column that is absent: one
\* info line per expected-nulls column, then per required column a warning
\* when it holds nulls and an info line when it does not
RECURSIVE NullLines(_, _, _, _)
NullLines(df, expected_nulls, required_columns, i) ==
  LET names == expected_nulls \o required_columns
  IN IF i > Len(names) THEN <<>>
     ELSE IF names[i] \notin Columns(df) THEN <<>>
     ELSE << IF i <= Len(expected_nulls) THEN "INFO [NULLS] " \o names[i] \o ": expected"
             ELSE IF HasNulls(df, names[i])
                  THEN "WARNING [NULLS] Unexpected nulls in " \o names[i]
             ELSE "INFO [NULLS] " \o names[i] \o ": OK (0 nulls)" >>
          \o NullLines(df, expected_nulls, required_columns, i + 1)

\* Variant: nothing is written over a file an earlier run() of this pipeline
\* run wrote.
_save_parquet_once(files, df, output_path, layer) ==
  IF Empty(df) \/ ( output_path \in DOMAIN files /\ files[output_path].gen = "new" )
  THEN [ fs |-> files, written |-> <<>>,
         log |-> <<"WARNING [SAVE] DataFrame is empty - skipping save">> ]
  ELSE [ fs |-> WriteFile(files, output_path, df), written |-> <<output_path>>,
         log |-> <<"INFO [SAVE] Saved to " \o layer>> ]

_save_parquet(files, df, output_path, layer) ==
  IF Empty(df)
  THEN [ fs |-> files, written |-> <<>>,
         log |-> <<"WARNING [SAVE] DataFrame is empty - skipping save">> ]
  ELSE [ fs |-> WriteFile(files, output_path, df), written |-> <<output_path>>,
         log |-> <<"INFO [SAVE] Saved to " \o layer>> ]

-------------------------------------------------------------------------------
(* The hook pipeline of the Bronze -> Silver transformers *)

\* df.rename(columns=column_mapping); SilverTransformer's default returns df
_rename_columns(self, df) ==
  IF "_rename_columns" \notin self.defines THEN df
  ELSE NullsIn(Frame([ i \in DOMAIN df.cols |-> RenameGet(self.rename, df.cols[i]) ],
                     { RenameGet(self.rename, c) : c \in df.allnull }, df.keys),
               { RenameGet(self.rename, c) : c \in df.nulls })

\* the statements of _cast_dtypes from the i-th on.  A cast assigns
\* df[col] = f(df[col]) and df.drop(columns=[col]) removes col: both raise
\* KeyError when col is not a column.  DimensionTransformer guards its casts
\* with "if col in df.columns".
RECURSIVE CastFrom(_, _, _)
CastFrom(ops, i, df) ==
  IF i > Len(ops) \/ df.exc # "none" THEN df
  ELSE LET kind == ops[i][1]
           col  == ops[i][2]
       IN CastFrom(ops, i + 1,
            IF kind = "datetime_if_present" THEN df
            ELSE IF col \notin Columns(df) THEN Raised("KeyError")
            ELSE IF kind = "drop"
                 THEN NullsIn(Frame(SelectSeq(df.cols, LAMBDA c : c # col),
                                    df.allnull \ {col}, df.keys),
                              df.nulls \ {col})
            ELSE df)

_cast_dtypes(self, df) ==
  IF "_cast_dtypes" \notin self.defines THEN df ELSE CastFrom(self.cast, 1, df)

\* DimensionTransformer walks df.columns; the bespoke classes read their
\* expected and required columns by name (StockItemTransformer through
\* _validate_nulls)
\* Variant: the hook fills the nulls it finds.
_handle_nulls_filling(self, df) ==
  IF "_handle_nulls" \notin self.defines THEN df
  ELSE IF self.name = "DimensionTransformer" THEN NullsIn(df, {})
  ELSE IF _validate_nulls(df, self.expected, self.required).exc # "none"
  THEN Raised("KeyError")
  ELSE NullsIn(df, {})

_handle_nulls(self, df) ==
  IF "_handle_nulls" \notin self.defines \/ self.name = "DimensionTransformer" THEN df
  ELSE _validate_nulls(df, self.expected, self.required)

\* the lines DimensionTransformer._handle_nulls logs for the columns of df
\* from the i-th on (valid_to is skipped by the loop)
RECURSIVE DimensionNullLines(_, _)
DimensionNullLines(df, i) ==
  IF i > Len(df.cols) THEN <<>>
  ELSE ( IF df.cols[i] = "valid_to" THEN <<>>
         ELSE IF HasNulls(df, df.cols[i])
              THEN <<"WARNING [NULLS] Unexpected nulls in " \o df.cols[i]>>
         ELSE <<"INFO [NULLS] " \o df.cols[i] \o ": OK (0 nulls)">> )
       \o DimensionNullLines(df, i + 1)

\* what the validate stage writes to the log
_handle_nulls_log(self, df) ==
  IF "_handle_nulls" \notin self.defines THEN <<>>
  ELSE IF self.name = "DimensionTransformer"
  THEN ( IF "valid_to" \in Columns(df) THEN <<"INFO [NULLS] valid_to: expected">> ELSE <<>> )
       \o DimensionNullLines(df, 1)
  ELSE NullLines(df, self.expected, self.required, 1)

\* Variant: the rename stage is called before the empty columns are dropped.
TransformStages_rename_first(self) ==
  <<"_rename_columns", "_drop_empty_columns", "_cast_dtypes", "_handle_nulls">>

\* the calls of the transform() an object of class self resolves to
TransformStages(self) ==
  IF "transform" \in self.defines THEN self.stages ELSE SilverTransformer.stages

ApplyStage(self, stage, df) ==
  CASE stage = "_drop_empty_columns" -> _drop_empty_columns(df)
    [] stage = "_rename_columns" -> _rename_columns(self, df)
    [] stage = "_cast_dtypes" -> _cast_dtypes(self, df)
    [] stage = "_handle_nulls" -> _handle_nulls(self, df)

\* what a stage writes to the log
StageLog(self, stage, df) ==
  IF stage = "_handle_nulls" THEN _handle_nulls_log(self, df) ELSE <<>>

\* transform(df): the stages in order, each on the frame the one before
\* returned, up to the first that raises
RECURSIVE StagesFrom(_, _, _, _, _)
StagesFrom(self, stages, i, df, log) ==
  IF i > Len(stages) \/ df.exc # "none"
  THEN [ df |-> df, calls |-> SubSeq(stages, 1, i - 1), log |-> log ]
  ELSE StagesFrom(self, stages, i + 1, ApplyStage(self, stages[i], df),
                  log \o StageLog(self, stages[i], df))

transform(self, df) == StagesFrom(self, TransformStages(self), 1, df, <<>>)

-------------------------------------------------------------------------------
(* run() *)

\* what one run() did: the exception it raised, the methods it called in
\* order, what its logger received, the paths it wrote, the files afterwards,
\* and what load_bronze and transform handed back to it
Outcome(e, calls, log, saved, got) ==
  [ exc |-> e, calls |-> calls, log |-> log, written |-> saved.written, fs |-> saved.fs,
    got |-> got ]

\* a call's result as run() sees it: the exception, or whether df.empty
Table(df) == IF df.exc # "none" THEN df.exc ELSE IF Empty(df) THEN "empty" ELSE "rows"

\* what run() got from load_bronze and from transform ("-": not called)
Got(load, trans) == [ load |-> load, transform |-> trans ]

\* no save took place
Unsaved(files) == [ fs |-> files, written |-> <<>> ]

\* Variant: a run() that stops before the save removes the file at its
\* output path.
SilverTransformer_run_removing(obj, files) ==
  LET self   == ClassOf(obj.cls, obj.dim)
      loaded == load_bronze(self, files)
      t      == transform(self, loaded.df)
      saved  == _save_parquet(files, t.df, self.silver_dir \o "/" \o obj.ofn, "Silver")
      path   == self.silver_dir \o "/" \o obj.ofn
      gone   == [ fs |-> [ q \in DOMAIN files |-> IF q = path THEN Missing ELSE files[q] ],
                  written |-> <<>> ]
  IN IF _check_output_filename(obj) # "none"
     THEN Outcome(_check_output_filename(obj), <<"_check_output_filename">>, <<>>, Unsaved(files),
                  Got("-", "-"))
     ELSE IF Empty(loaded.df)
     THEN Outcome("none", <<"_check_output_filename", "load_bronze">>,
                  <<"INFO [RUN] Starting">> \o loaded.log
                     \o <<"ERROR [RUN] Aborting - empty DataFrame after load">>,
                  gone, Got(Table(loaded.df), "-"))
     ELSE IF t.df.exc # "none"
     THEN Outcome(t.df.exc, <<"_check_output_filename", "load_bronze", "transform">> \o t.calls,
                  <<"INFO [RUN] Starting">> \o loaded.log \o t.log, gone,
                  Got(Table(loaded.df), Table(t.df)))
     ELSE Outcome("none",
                  <<"_check_output_filename", "load_bronze", "transform">> \o t.calls
                     \o <<"save_silver">>,
                  <<"INFO [RUN] Starting">> \o loaded.log \o t.log \o saved.log
                     \o <<"INFO [RUN] Complete">>,
                  saved, Got(Table(loaded.df), Table(t.df)))

SilverTransformer_run(obj, files) ==
  LET self   == ClassOf(obj.cls, obj.dim)
      loaded == load_bronze(self, files)
      t      == transform(self, loaded.df)
      saved  == _save_parquet(files, t.df, self.silver_dir \o "/" \o obj.ofn, "Silver")
  IN IF _check_output_filename(obj) # "none"
     THEN Outcome(_check_output_filename(obj), <<"_check_output_filename">>, <<>>, Unsaved(files),
                  Got("-", "-"))
     ELSE IF Empty(loaded.df)
     THEN Outcome("none", <<"_check_output_filename", "load_bronze">>,
                  <<"INFO [RUN] Starting">> \o loaded.log
                     \o <<"ERROR [RUN] Aborting - empty DataFrame after load">>,
                  Unsaved(files), Got(Table(loaded.df), "-"))
     ELSE IF t.df.exc # "none"
     THEN Outcome(t.df.exc, <<"_check_output_filename", "load_bronze", "transform">> \o t.calls,
                  <<"INFO [RUN] Starting">> \o loaded.log \o t.log, Unsaved(files),
                  Got(Table(loaded.df), Table(t.df)))
     ELSE Outcome("none",
                  <<"_check_output_filename", "load_bronze", "transform">> \o t.calls
                     \o <<"save_silver">>,
                  <<"INFO [RUN] Starting">> \o loaded.log \o t.log \o saved.log
                     \o <<"INFO [RUN] Complete">>,
                  saved, Got(Table(loaded.df), Table(t.df)))

-------------------------------------------------------------------------------
(* pandas operations the Gold assemblers use, on column names and anchor keys *)

\* Variant: a name that is not a column is left out.
Subscript_omitting(df, names) ==
  IF df.exc # "none" THEN df
  ELSE Frame(SelectSeq(names, LAMBDA c : c \in Columns(df)), {}, df.keys)

\* df[[c1, ..., cn]]: KeyError when a name is not a column
Subscript(df, names) ==
  IF df.exc # "none" THEN df
  ELSE IF \E i \in DOMAIN names : names[i] \notin Columns(df) THEN Raised("KeyError")
  ELSE Frame(names, {}, df.keys)

\* left.merge(right, left_on=..., right_on=..., how="left") (on=k is
\* left_on = right_on = k): KeyError when a key is not a column; every left
\* row survives; a name both sides carry, other than a common key, gets the
\* suffix _x on the left and _y on the right
MergeLeft(left, right, left_on, right_on) ==
  IF left.exc # "none" THEN left
  ELSE IF right.exc # "none" THEN right
  ELSE IF left_on \notin Columns(left) \/ right_on \notin Columns(right) THEN Raised("KeyError")
  ELSE LET common == IF left_on = right_on THEN {left_on} ELSE {}
           shared == (Columns(left) \cap Columns(right)) \ common
           lcols  == [ i \in DOMAIN left.cols |->
                         IF left.cols[i] \in shared THEN left.cols[i] \o "_x" ELSE left.cols[i] ]
           rkept  == SelectSeq(right.cols, LAMBDA c : c \notin common)
           rcols  == [ i \in DOMAIN rkept |->
                         IF rkept[i] \in shared THEN rkept[i] \o "_y" ELSE rkept[i] ]
       IN Frame(lcols \o rcols, {}, left.keys)

\* df.rename(columns=mapping)
Rename(df, mapping) ==
  IF df.exc # "none" THEN df
  ELSE Frame([ i \in DOMAIN df.cols |-> RenameGet(mapping, df.cols[i]) ], {}, df.keys)

\* df.drop(columns=[col])
Drop(df, col) ==
  IF df.exc # "none" THEN df
  ELSE IF col \notin Columns(df) THEN Raised("KeyError")
  ELSE Frame(SelectSeq(df.cols, LAMBDA c : c # col), {}, df.keys)

-------------------------------------------------------------------------------
(* The Gold assemblers' transform(): the frame returned (or the exception)   *)
(* and what the loads logged                                                 *)

DimCustomerTransformer_transform(files) ==
  LET customers        == load_silver(files, "sales/customers.parquet")
      cities           == load_silver(files, "dimensions/cities.parquet")
      provinces        == load_silver(files, "dimensions/provinces.parquet")
      countries        == load_silver(files, "dimensions/countries.parquet")
      delivery_methods == load_silver(files, "dimensions/delivery_methods.parquet")
      people           == load_silver(files, "dimensions/people.parquet")
      \* _build_responsible_market
      market1 == MergeLeft(provinces.df,
                   Subscript(countries.df, <<"country_id", "country_name", "iso_alpha3_code",
                                             "continent", "region", "subregion">>),
                   "country_id", "country_id")
      responsible_market ==
                 MergeLeft(market1,
                   Subscript(cities.df, <<"state_province_id", "city_id", "city_name">>),
                   "state_province_id", "state_province_id")
      \* _build_customer_dimension
      df1 == MergeLeft(customers.df,
               Subscript(delivery_methods.df, <<"delivery_method_id", "delivery_method_name">>),
               "delivery_method_id", "delivery_method_id")
      df2 == MergeLeft(df1,
               Subscript(responsible_market,
                 <<"city_id", "city_name", "country_name", "state_province_code",
                   "state_province_name", "iso_alpha3_code", "continent", "region",
                   "subregion", "sales_territory">>),
               "delivery_city_id", "city_id")
      df3 == MergeLeft(df2,
               Subscript(people.df, <<"person_id", "full_name", "email_address">>),
               "primary_contact_person_id", "person_id")
      \* _select_columns
      columns == <<"customer_id", "customer_name", "full_name", "email_address", "phone_number",
                 "fax_number", "website_url", "bill_to_customer_id", "credit_limit",
                 "delivery_method_name", "delivery_address_line1", "delivery_address_line2",
                 "delivery_postal_code", "postal_address_line1", "postal_address_line2",
                 "postal_postal_code", "city_name", "state_province_code",
                 "state_province_name", "sales_territory", "country_name",
                 "iso_alpha3_code", "continent", "region", "subregion">>
      df4 == Subscript(df3, columns)
      \* _impute_credit_limit: the self-join on bill_to_customer_id, then the
      \* temporary column is dropped
      credits == Rename(Subscript(df4, <<"customer_id", "credit_limit">>),
                   << <<"customer_id", "bill_to_customer_id">>,
                      <<"credit_limit", "parent_credit_limit">> >>)
      df5 == Drop(MergeLeft(df4, credits, "bill_to_customer_id", "bill_to_customer_id"),
                  "parent_credit_limit")
      \* _impute_contact_info reads full_name, email_address, customer_name
      df6 == IF df5.exc # "none" THEN df5
             ELSE _validate_nulls(df5, <<"full_name", "email_address", "customer_name">>, <<>>)
      \* _rename_columns (the entries that map a name to itself are left out)
      column_mapping == << <<"bill_to_customer_id", "parent_customer_id">>,
                  <<"full_name", "contact_full_name">>, <<"email_address", "contact_email">>,
                  <<"phone_number", "contact_phone">>, <<"fax_number", "contact_fax">>,
                  <<"website_url", "customer_website">>,
                  <<"credit_limit", "credit_limit_amount">>,
                  <<"delivery_address_line1", "delivery_address_additional">>,
                  <<"delivery_address_line2", "delivery_street_address">>,
                  <<"delivery_method_name", "delivery_method">>,
                  <<"postal_address_line1", "postal_address_additional">>,
                  <<"postal_address_line2", "postal_street_address">>,
                  <<"postal_postal_code", "postal_code">>,
                  <<"city_name", "city">>, <<"state_province_code", "state_code">>,
                  <<"state_province_name", "state_name">>, <<"country_name", "country">>,
                  <<"iso_alpha3_code", "country_code_iso3">> >>
      df7 == Rename(df6, column_mapping)
      \* _reorder_columns
      df8 == Subscript(df7,
               <<"customer_id", "customer_name", "parent_customer_id",
                 "contact_full_name", "contact_email", "contact_phone", "contact_fax",
                 "customer_website", "credit_limit_amount", "delivery_method",
                 "delivery_address_additional", "delivery_street_address",
                 "delivery_postal_code", "postal_address_additional",
                 "postal_street_address", "postal_code", "city", "state_code",
                 "state_name", "country", "country_code_iso3", "continent", "region",
                 "subregion", "sales_territory">>)
  IN [ df |-> df8, joined |-> df3, select |-> columns, rename |-> column_mapping,
      
       log |-> customers.log \o cities.log \o provinces.log \o countries.log
                 \o delivery_methods.log \o people.log ]

DimGeographyTransformer_transform(files) ==
  LET cities    == load_silver(files, "dimensions/cities.parquet")
      provinces == load_silver(files, "dimensions/provinces.parquet")
      countries == load_silver(files, "dimensions/countries.parquet")
      \* _build_responsible_market
      market1 == MergeLeft(provinces.df,
                   Subscript(countries.df, <<"country_id", "country_name", "iso_alpha3_code",
                                             "continent", "region", "subregion">>),
                   "country_id", "country_id")
      market2 == MergeLeft(market1,
                   Subscript(cities.df, <<"state_province_id", "city_id", "city_name">>),
                   "state_province_id", "state_province_id")
      \* _select_columns
      columns == <<"city_id", "city_name", "state_province_id", "state_province_code",
                 "state_province_name", "country_id", "country_name", "iso_alpha3_code",
                 "continent", "region", "subregion", "sales_territory",
                 "latest_recorded_population">>
      df1 == Subscript(market2, columns)
      \* _rename_columns (the entries that map a name to itself are left out)
      column_mapping == << <<"city_name", "city">>, <<"state_province_code", "state_code">>,
                  <<"state_province_name", "state_name">>, <<"country_name", "country">>,
                  <<"iso_alpha3_code", "country_code_iso3">> >>
      df2 == Rename(df1, column_mapping)
      \* _reorder_columns
      df3 == Subscript(df2,
               <<"city_id", "city", "state_province_id", "state_code", "state_name",
                 "country_id", "country", "country_code_iso3", "continent", "region",
                 "subregion", "sales_territory", "latest_recorded_population">>)
  IN [ df |-> df3, joined |-> market2, select |-> columns, rename |-> column_mapping,
      log |-> cities.log \o provinces.log \o countries.log ]

DimPeopleTransformer_transform(files) ==
  LET people == load_silver(files, "dimensions/people.parquet")
      \* _select_columns
      columns == <<"person_id", "full_name", "email_address", "phone_number", "fax_number">>
      df1 == Subscript(people.df, columns)
      \* _filter_person: df[df["person_id"] != 1]; person_id is the anchor key
      df2 == IF df1.exc # "none" THEN df1 ELSE Frame(df1.cols, {}, df1.keys \ {1})
  IN [ df |-> df2, joined |-> people.df, select |-> columns, rename |-> <<>>,
      log |-> people.log ]

DimStockItemTransformer_transform(files) ==
  LET stock_items   == load_silver(files, "dimensions/stock_items.parquet")
      colors        == load_silver(files, "dimensions/colors.parquet")
      package_types == load_silver(files, "dimensions/package_types.parquet")
      \* _build_stock_item_dimension
      df1 == Rename(MergeLeft(stock_items.df,
                      Subscript(colors.df, <<"color_id", "color_name">>),
                      "color_id", "color_id"),
                    << <<"color_name", "color">> >>)
      df2 == Rename(MergeLeft(df1,
                      Subscript(package_types.df, <<"package_type_id", "package_type_name">>),
                      "unit_package_id", "package_type_id"),
                    << <<"package_type_name", "unit_package">> >>)
      df3 == Rename(MergeLeft(df2,
                      Subscript(package_types.df, <<"package_type_id", "package_type_name">>),
                      "outer_package_id", "package_type_id"),
                    << <<"package_type_name", "outer_package">> >>)
      \* _select_columns
      columns == <<"stock_item_id", "stock_item_name", "color", "unit_package", "outer_package",
                 "supplier_id", "brand", "size", "typical_weight_per_unit", "lead_time_days",
                 "quantity_per_outer", "is_chiller_stock", "tax_rate", "unit_price",
                 "recommended_retail_price", "search_details">>
      df4 == Subscript(df3, columns)
      \* _rename_columns (the entries that map a name to itself are left out)
      column_mapping == << <<"stock_item_name", "product_name">>,
                  <<"unit_package", "unit_package_type">>,
                  <<"outer_package", "outer_package_type">>,
                  <<"typical_weight_per_unit", "weight_per_unit_kg">> >>
      df5 == Rename(df4, column_mapping)
  IN [ df |-> df5, joined |-> df3, select |-> columns, rename |-> column_mapping,
      log |-> stock_items.log \o colors.log \o package_types.log ]

DimSupplierTransformer_transform(files) ==
  LET suppliers        == load_silver(files, "purchasing/suppliers.parquet")
      cities           == load_silver(files, "dimensions/cities.parquet")
      delivery_methods == load_silver(files, "dimensions/delivery_methods.parquet")
      people           == load_silver(files, "dimensions/people.parquet")
      \* _build_supplier_dimension
      df1 == MergeLeft(suppliers.df,
               Subscript(delivery_methods.df, <<"delivery_method_id", "delivery_method_name">>),
               "delivery_method_id", "delivery_method_id")
      df2 == MergeLeft(df1,
               Subscript(people.df, <<"person_id", "full_name", "email_address", "phone_number">>),
               "primary_contact_person_id", "person_id")
      df3 == Rename(MergeLeft(df2, Subscript(cities.df, <<"city_id", "city_name">>),
                              "delivery_city_id", "city_id"),
                    << <<"city_name", "delivery_city">> >>)
      df4 == Rename(MergeLeft(df3, Subscript(cities.df, <<"city_id", "city_name">>),
                              "postal_city_id", "city_id"),
                    << <<"city_name", "postal_city">> >>)
      \* _select_columns
      columns == <<"supplier_id", "supplier_name", "full_name", "email_address", "phone_number_y",
                 "delivery_method_name", "delivery_address_line2", "delivery_address_line1",
                 "delivery_postal_code", "delivery_city", "postal_address_line2",
                 "postal_address_line1", "postal_postal_code", "postal_city",
                 "internal_comments", "supplier_reference", "bank_account_name",
                 "bank_account_branch", "bank_account_code">>
      df5 == Subscript(df4, columns)
      \* _impute_supplier_fields reads and fills three of the selected columns
      df6 == IF df5.exc # "none" THEN df5
             ELSE _validate_nulls(df5, <<"internal_comments", "delivery_address_line1",
                                         "delivery_method_name">>, <<>>)
      \* _rename_columns (the entries that map a name to itself are left out)
      column_mapping == << <<"full_name", "contact_full_name">>, <<"email_address", "contact_email">>,
                  <<"phone_number_y", "contact_phone">>,
                  <<"delivery_method_name", "delivery_method">>,
                  <<"delivery_address_line2", "delivery_street_address">>,
                  <<"delivery_address_line1", "delivery_address_additional">>,
                  <<"postal_address_line2", "postal_street_address">>,
                  <<"postal_address_line1", "postal_address_additional">> >>
      df7 == Rename(df6, column_mapping)
  IN [ df |-> df7, joined |-> df4, select |-> columns, rename |-> column_mapping,
      log |-> suppliers.log \o cities.log \o delivery_methods.log \o people.log ]

\* the transform() an object of a Gold class resolves to
GoldTransform(cls, files) ==
  CASE cls = "DimCustomerTransformer" -> DimCustomerTransformer_transform(files)
    [] cls = "DimGeographyTransformer" -> DimGeographyTransformer_transform(files)
    [] cls = "DimPeopleTransformer" -> DimPeopleTransformer_transform(files)
    [] cls = "DimStockItemTransformer" -> DimStockItemTransformer_transform(files)
    [] cls = "DimSupplierTransformer" -> DimSupplierTransformer_transform(files)

\* what a Gold run() met: the table transform() returned (or the exception
\* it raised), the joined table its _select_columns was given, the select
\* list, the mapping of its _rename_columns and the columns of its result
GotGold(t) ==
  [ load |-> "-", transform |-> Table(t.df), joined |-> t.joined, select |-> t.select,
    rename |-> t.rename, cols |-> t.df.cols ]

\* Variant: the except clause logs and does not raise again.
GoldTransformer_run_swallowing(obj, files) ==
  LET t     == GoldTransform(obj.cls, files)
      saved == _save_parquet(files, t.df, "gold/" \o obj.ofn, "Gold")
  IN IF _check_output_filename(obj) # "none"
     THEN Outcome(_check_output_filename(obj), <<"_check_output_filename">>, <<>>, Unsaved(files),
                  Got("-", "-"))
     ELSE IF t.df.exc # "none"
     THEN Outcome("none", <<"_check_output_filename", "transform">>,
                  <<"INFO [RUN] Starting">> \o t.log
                     \o <<"ERROR [RUN] Error during transformation">>,
                  Unsaved(files), GotGold(t))
     ELSE IF Empty(t.df)
     THEN Outcome("none", <<"_check_output_filename", "transform">>,
                  <<"INFO [RUN] Starting">> \o t.log
                     \o <<"ERROR [RUN] Aborting - empty DataFrame after transform">>,
                  Unsaved(files), GotGold(t))
     ELSE Outcome("none", <<"_check_output_filename", "transform", "save_gold">>,
                  <<"INFO [RUN] Starting">> \o t.log \o saved.log
                     \o <<"INFO [RUN] Complete">>,
                  saved, GotGold(t))

\* GoldTransformer.run: the contract check stands before the try; whatever
\* transform() or save_gold raises inside it is logged and raised again
GoldTransformer_run(obj, files) ==
  LET t     == GoldTransform(obj.cls, files)
      saved == _save_parquet(files, t.df, "gold/" \o obj.ofn, "Gold")
  IN IF _check_output_filename(obj) # "none"
     THEN Outcome(_check_output_filename(obj), <<"_check_output_filename">>, <<>>, Unsaved(files),
                  Got("-", "-"))
     ELSE IF t.df.exc # "none"
     THEN Outcome(t.df.exc, <<"_check_output_filename", "transform">>,
                  <<"INFO [RUN] Starting">> \o t.log
                     \o <<"ERROR [RUN] Error during transformation">>,
                  Unsaved(files), GotGold(t))
     ELSE IF Empty(t.df)
     THEN Outcome("none", <<"_check_output_filename", "transform">>,
                  <<"INFO [RUN] Starting">> \o t.log
                     \o <<"ERROR [RUN] Aborting - empty DataFrame after transform">>,
                  Unsaved(files), GotGold(t))
     ELSE Outcome("none", <<"_check_output_filename", "transform", "save_gold">>,
                  <<"INFO [RUN] Starting">> \o t.log \o saved.log
                     \o <<"INFO [RUN] Complete">>,
                  saved, GotGold(t))

\* transformer.run(): the run the object's class resolves to
Run(obj, files) ==
  IF Definer(ClassOf(obj.cls, obj.dim), "run") = "SilverTransformer"
  THEN SilverTransformer_run(obj, files)
  ELSE GoldTransformer_run(obj, files)

-------------------------------------------------------------------------------
(* run_all.py: the registrations and the files the runs find *)

\* the constructor calls of the Silver list, in list order (class, argument)
SilverRegistrations ==
  << <<"OrderTransformer", "">>, <<"OrderLineTransformer", "">>,
     <<"CustomerTransformer", "">>, <<"InvoiceTransformer", "">>,
     <<"InvoiceLineTransformer", "">>, <<"PurchaseOrderTransformer", "">>,
     <<"PurchaseOrderLineTransformer", "">>, <<"SupplierTransformer", "">>,
     <<"SupplierTransactionTransformer", "">>,
     <<"DimensionTransformer", "colors">>, <<"DimensionTransformer", "countries">>,
     <<"DimensionTransformer", "delivery_methods">>,
     <<"DimensionTransformer", "package_types">>,
     <<"CitiesTransformer", "">>, <<"ProvinceTransformer", "">>,
     <<"PeopleTransformer", "">>, <<"StockItemTransformer", "">>,
     <<"StockItemHoldingsTransformer", "">> >>

\* the constructor calls of the Gold list
GoldRegistrations ==
  << <<"DimCustomerTransformer", "">>, <<"DimGeographyTransformer", "">>,
     <<"DimPeopleTransformer", "">>, <<"DimStockItemTransformer", "">>,
     <<"DimSupplierTransformer", "">> >>

Objects(regs) == [ i \in DOMAIN regs |-> Obj(regs[i][1], regs[i][2]) ]

\* the path save_silver writes for a Silver class
SilverPath(self) == self.silver_dir \o "/" \o self.output

\* a source table with every column the class's rename map names
SourceTable(self, allnull, keys) ==
  Frame([ i \in DOMAIN self.rename |-> self.rename[i][1] ], allnull, keys)

\* the Silver classes whose files the registered Gold assemblers load
GoldInputs ==
  { <<"CustomerTransformer", "">>, <<"SupplierTransformer", "">>, <<"CitiesTransformer", "">>,
    <<"ProvinceTransformer", "">>, <<"PeopleTransformer", "">>, <<"StockItemTransformer", "">>,
    <<"DimensionTransformer", "colors">>, <<"DimensionTransformer", "countries">>,
    <<"DimensionTransformer", "delivery_methods">>,
    <<"DimensionTransformer", "package_types">> }

\* The files of a healthy data directory: the Bronze export of stock items,
\* and each Silver file as its class's transform() leaves a full source table
\* with rows keyed 1 .. MaxKey.
GoodFiles ==
  LET classes == { ClassOf(r[1], r[2]) : r \in GoldInputs }
      paths   == { SilverPath(c) : c \in classes } \cup { StockItemTransformer.bronze }
  IN [ p \in paths |->
         IF p = StockItemTransformer.bronze
         THEN FileOf(SourceTable(StockItemTransformer, {}, 1..MaxKey), "old")
         ELSE LET c == CHOOSE k \in classes : SilverPath(k) = p
              IN FileOf(transform(c, SourceTable(c, {}, 1..MaxKey)).df, "old") ]

\* What one file can be instead: absent; for the Bronze export also without
\* rows, with one column wholly null (one the hooks read by name, one
\* only a Gold assembler selects, one nobody reads), or with nulls among
\* the values of a required column; for people.parquet the system person
\* alone.  save_silver never writes a table without rows, so
\* a Silver file has rows.
Deviations(p) ==
  { Missing }
  \cup ( IF p = StockItemTransformer.bronze
         THEN { FileOf(SourceTable(StockItemTransformer, {}, {}), "old") }
              \cup { FileOf(SourceTable(StockItemTransformer, {c}, 1..MaxKey), "old") :
                       c \in {"Barcode", "SearchDetails", "Tags"} }
              \cup { FileOf(NullsIn(SourceTable(StockItemTransformer, {}, 1..MaxKey),
                                    {"UnitPrice"}), "old") }
         ELSE {} )
  \cup ( IF p = SilverPath(PeopleTransformer)
         THEN { [ GoodFiles[p] EXCEPT !.keys = {1} ] }
         ELSE {} )

\* the data directories a call can start from: healthy, or with one file deviating
InitialFiles ==
  { GoodFiles }
  \cup UNION { { [ GoodFiles EXCEPT ![p] = d ] : d \in Deviations(p) } : p \in DOMAIN GoodFiles }

-------------------------------------------------------------------------------
(* run_all.py: the orchestrator *)

\* label.upper() for the labels run_all passes
Upper(l) == CASE l = "Silver" -> "SILVER" [] l = "Gold" -> "GOLD" [] OTHER -> l

\* the line _run_transformers logs for one transformer: e is what run()
\* raised, "none" when it returned
RunLine(l, name, e) ==
  IF e = "none"
  THEN [ level |-> "INFO", wave |-> Upper(l), name |-> name, status |-> "OK", text |-> "" ]
  ELSE [ level |-> "ERROR", wave |-> Upper(l), name |-> name, status |-> "FAILED", text |-> e ]

\* Variant: the report counts the list, not the list less its failures.
WaveReport_all_ok(wave, list, wave_failed) ==
  [ level |-> "INFO", wave |-> wave, ok |-> Len(list), of |-> Len(list) ]

\* "<wave>: <ok>/<of> OK", logged after each wave
WaveReport(wave, list, wave_failed) ==
  [ level |-> "INFO", wave |-> wave, ok |-> Len(list) - Len(wave_failed), of |-> Len(list) ]

\* the summary lines at the end of run_all
Summary(silver, gold, silver_failed, gold_failed) ==
  LET total      == Len(silver) + Len(gold)
      all_failed == silver_failed \o gold_failed
  IN IF all_failed # <<>>
     THEN << [ level |-> "WARNING", failed |-> all_failed ],
             [ level |-> "INFO", ok |-> total - Len(all_failed), of |-> total ] >>
     ELSE << [ level |-> "INFO", completed |-> total ] >>

\* run_all up to its first _run_transformers call: both lists are built,
\* constructor call by constructor call; the first constructor that raises
\* ends run_all with its exception, as no handler is in place yet
run_all_build ==
  /\ pc = "run_all"
  /\ LET regs == SilverRegistrations \o GoldRegistrations
         bad  == { i \in DOMAIN regs : Construct(regs[i][1], regs[i][2]) # "none" }
     IN IF bad # {}
        THEN LET i == CHOOSE j \in bad : \A k \in bad : j <= k
             IN /\ exc' = Construct(regs[i][1], regs[i][2])
                /\ pc' = "raised"
                /\ UNCHANGED <<transformers, label>>
        ELSE /\ transformers' = Objects(SilverRegistrations)
             /\ label' = "Silver"
             /\ pc' = "loop"
             /\ exc' = exc
  /\ runlog' = Append(runlog, [ level |-> "INFO", text |-> "Starting run_all pipeline" ])
  /\ UNCHANGED <<entry, fs, idx, failed, hist, ret, tcls, tdf, tdone>>

\* the state a run finds its Bronze source in ("-" for a Gold assembler,
\* which has none)
Found(obj, files) ==
  IF obj.cls \in GoldClassNames THEN "-"
  ELSE LET self == ClassOf(obj.cls, obj.dim)
       IN IF self.bronze \notin DOMAIN files \/ files[self.bronze].kind = "missing" THEN "missing"
          ELSE IF files[self.bronze].keys = {} THEN "no rows"
          ELSE "rows"

\* the Bronze file the run() of obj reads (none for a Gold assembler)
BronzeOf(obj, files) ==
  IF obj.cls \in GoldClassNames THEN Missing
  ELSE LET self == ClassOf(obj.cls, obj.dim)
       IN IF self.bronze \in DOMAIN files THEN files[self.bronze] ELSE Missing

\* the paths at which two states of the data directory differ
Changed(before, after) ==
  { q \in DOMAIN before \cup DOMAIN after :
      \/ q \notin DOMAIN before
      \/ q \notin DOMAIN after
      \/ before[q] # after[q] }

\* Variant: run() is called outside any try, so its exception ends the loop.
_run_transformers_loop_uncaught ==
  /\ pc = "loop"
  /\ idx < Len(transformers)
  /\ LET transformer == transformers[idx + 1]
         name        == transformer.cls
     IN \E r \in { Run(transformer, fs) } :
        /\ hist' = Append(hist, [ obj |-> transformer, wave |-> label, exc |-> r.exc,
                                  calls |-> r.calls, log |-> r.log, written |-> r.written,
                                  got |-> r.got, found |-> Found(transformer, fs),
                                         bronze |-> BronzeOf(transformer, fs),
                                  changed |-> Changed(fs, r.fs) ])
        /\ fs' = r.fs
        /\ IF r.exc = "none"
           THEN /\ runlog' = Append(runlog, RunLine(label, name, r.exc))
                /\ UNCHANGED <<pc, exc>>
           ELSE /\ pc' = "raised"
                /\ exc' = r.exc
                /\ runlog' = runlog
  /\ idx' = idx + 1
  /\ UNCHANGED <<entry, transformers, label, failed, ret, tcls, tdf, tdone>>

\* Variant: a run() that returns without having written its file counts as
\* a failure too.
_run_transformers_loop_counting_unwritten ==
  /\ pc = "loop"
  /\ idx < Len(transformers)
  /\ LET transformer == transformers[idx + 1]
         name        == transformer.cls
     IN \E r \in { Run(transformer, fs) } :
        /\ hist' = Append(hist, [ obj |-> transformer, wave |-> label, exc |-> r.exc,
                                  calls |-> r.calls, log |-> r.log, written |-> r.written,
                                  got |-> r.got, found |-> Found(transformer, fs),
                                         bronze |-> BronzeOf(transformer, fs),
                                  changed |-> Changed(fs, r.fs) ])
        /\ fs' = r.fs
        /\ failed' = IF r.exc = "none" /\ r.written # <<>> THEN failed ELSE Append(failed, name)
        /\ runlog' = Append(runlog, RunLine(label, name,
                                            IF r.exc = "none" /\ r.written = <<>>
                                            THEN "no output" ELSE r.exc))
  /\ idx' = idx + 1
  /\ UNCHANGED <<entry, transformers, label, pc, exc, ret, tcls, tdf, tdone>>

\* one iteration of the for loop of _run_transformers: run() inside the try,
\* the OK line after it, the except clause recording and logging a failure
_run_transformers_loop ==
  /\ pc = "loop"
  /\ idx < Len(transformers)
  /\ LET transformer == transformers[idx + 1]
         name        == transformer.cls
     IN \E r \in { Run(transformer, fs) } :
        /\ hist' = Append(hist, [ obj |-> transformer, wave |-> label, exc |-> r.exc,
                                  calls |-> r.calls, log |-> r.log, written |-> r.written,
                                  got |-> r.got, found |-> Found(transformer, fs),
                                         bronze |-> BronzeOf(transformer, fs),
                                  changed |-> Changed(fs, r.fs) ])
        /\ fs' = r.fs
        /\ failed' = IF r.exc = "none" THEN failed ELSE Append(failed, name)
        /\ runlog' = Append(runlog, RunLine(label, name, r.exc))
  /\ idx' = idx + 1
  /\ UNCHANGED <<entry, transformers, label, pc, exc, ret, tcls, tdf, tdone>>

\* the loop is over: _run_transformers returns failed.  Called from run_all,
\* the caller logs the wave's report and goes on to the Gold wave or to the
\* summary.
_run_transformers_return ==
  /\ pc = "loop"
  /\ idx = Len(transformers)
  /\ ret' = Append(ret, failed)
  /\ IF entry = "run_all" /\ label = "Silver"
     THEN /\ runlog' = Append(runlog, WaveReport("Silver", transformers, failed))
          /\ transformers' = Objects(GoldRegistrations)
          /\ label' = "Gold"
          /\ idx' = 0
          /\ failed' = <<>>
          /\ pc' = "loop"
     ELSE IF entry = "run_all"
     THEN /\ runlog' = Append(runlog, WaveReport("Gold", transformers, failed))
                         \o Summary(Objects(SilverRegistrations), transformers, ret[1], failed)
          /\ pc' = "done"
          /\ UNCHANGED <<transformers, label, idx, failed>>
     ELSE /\ pc' = "done"
          /\ UNCHANGED <<runlog, transformers, label, idx, failed>>
  /\ UNCHANGED <<entry, fs, hist, exc, tcls, tdf, tdone>>

\* The transformer objects a caller can hand to _run_transformers: one of
\* each registered class that can be constructed, and two whose
\* _output_filename is "" or absent.
Transformers ==
  { Obj(r[1], r[2]) : r \in { q \in { SilverRegistrations[i] : i \in DOMAIN SilverRegistrations }
                                      \cup { GoldRegistrations[i] : i \in DOMAIN GoldRegistrations } :
                                Construct(q[1], q[2]) = "none" } }
  \cup { [ Obj("StockItemTransformer", "") EXCEPT !.ofn = "" ],
         [ Obj("DimPeopleTransformer", "") EXCEPT !.ofn = "UNSET" ] }

Init ==
  /\ entry \in {"run_all", "_run_transformers"}
  /\ fs \in InitialFiles
  /\ IF entry = "run_all"
     THEN transformers = <<>> /\ label = "" /\ pc = "run_all"
     ELSE /\ transformers \in UNION { [1..n -> Transformers] : n \in 0..MaxList }
          /\ label = "Silver"
          /\ pc = "loop"
  /\ idx = 0
  /\ failed = <<>>
  /\ runlog = <<>>
  /\ hist = <<>>
  /\ exc = "none"
  /\ ret = <<>>
  /\ tcls = [ cls |-> "", dim |-> "", df |-> EmptyDataFrame ]
  /\ tdf = EmptyDataFrame
  /\ tdone = <<>>

Next ==
  \/ run_all_build
  \/ _run_transformers_loop
  \/ _run_transformers_return

Spec == Init /\ [][Next]_vars

-------------------------------------------------------------------------------
(* transform() of the Bronze -> Silver classes, stage call by stage call *)

\* the column names of the class's source table
SourceColumns(self) == { self.rename[i][1] : i \in DOMAIN self.rename }

\* one statement "df = self.<stage>(df)" of the transform() body
transform_stage ==
  /\ pc = "transform"
  /\ Len(tdone) < Len(TransformStages(ClassOf(tcls.cls, tcls.dim)))
  /\ LET self  == ClassOf(tcls.cls, tcls.dim)
         stage == TransformStages(self)[Len(tdone) + 1]
         value == ApplyStage(self, stage, tdf)
     IN /\ tdone' = Append(tdone, [ stage |-> stage, arg |-> tdf, value |-> value,
                                     log |-> StageLog(self, stage, tdf) ])
        /\ IF value.exc = "none"
           THEN tdf' = value /\ UNCHANGED <<pc, exc>>
           ELSE tdf' = tdf /\ pc' = "raised" /\ exc' = value.exc
  /\ UNCHANGED <<entry, fs, transformers, label, idx, failed, runlog, hist, ret, tcls>>

\* "return df"
transform_return ==
  /\ pc = "transform"
  /\ Len(tdone) = Len(TransformStages(ClassOf(tcls.cls, tcls.dim)))
  /\ pc' = "done"
  /\ UNCHANGED <<entry, fs, transformers, label, idx, failed, runlog, hist, exc, ret,
                 tcls, tdf, tdone>>

\* transform(df) of any registered Silver class on a source table with or
\* without rows, in which at most one column holds nulls: in all of its
\* values, or in some of them
InitTransform ==
  /\ entry = "transform"
  /\ \E r \in { SilverRegistrations[i] : i \in DOMAIN SilverRegistrations } :
     \E allnull \in { {} } \cup { {c} : c \in SourceColumns(ClassOf(r[1], r[2])) } :
     \E nulls \in { {} } \cup { {c} : c \in SourceColumns(ClassOf(r[1], r[2])) } :
     \E keys \in { {}, 1..MaxKey } :
        /\ allnull = {} \/ nulls = {}
        /\ nulls # {} => keys # {}
        /\ tcls = [ cls |-> r[1], dim |-> r[2],
                    df |-> NullsIn(SourceTable(ClassOf(r[1], r[2]), allnull, keys), nulls) ]
        /\ tdf = NullsIn(SourceTable(ClassOf(r[1], r[2]), allnull, keys), nulls)
  /\ tdone = <<>>
  /\ pc = "transform"
  /\ exc = "none"
  /\ fs = GoodFiles
  /\ transformers = <<>>
  /\ label = ""
  /\ idx = 0
  /\ failed = <<>>
  /\ runlog = <<>>
  /\ hist = <<>>
  /\ ret = <<>>

NextTransform ==
  \/ transform_stage
  \/ transform_return

SpecTransform == InitTransform /\ [][NextTransform]_vars

-------------------------------------------------------------------------------
(* A constructor call followed by run() on the object it returns *)

\* the constructor calls: those run_all makes, and DimensionTransformer with
\* a name dimensions.yml does not have
ConstructorCalls ==
  { SilverRegistrations[i] : i \in DOMAIN SilverRegistrations }
  \cup { GoldRegistrations[i] : i \in DOMAIN GoldRegistrations }
  \cup { <<"DimensionTransformer", "unknown">>, <<"DimensionTransformer", "">> }

\* the data directories a Bronze -> Silver transformer of class self can find:
\* its Bronze export absent, without rows, or with rows
BronzeFiles(self) ==
  { [ p \in DOMAIN GoodFiles \cup {self.bronze} |->
        IF p = self.bronze THEN f ELSE GoodFiles[p] ] :
      f \in { Missing, FileOf(SourceTable(self, {}, {}), "old"),
              FileOf(SourceTable(self, {}, 1..MaxKey), "old") } }

\* transformer = cls(...)
construct_object ==
  /\ pc = "construct"
  /\ exc' = Construct(tcls.cls, tcls.dim)
  /\ IF Construct(tcls.cls, tcls.dim) = "none"
     THEN pc' = "constructed" /\ transformers' = <<Obj(tcls.cls, tcls.dim)>>
     ELSE pc' = "raised" /\ UNCHANGED transformers
  /\ UNCHANGED <<entry, fs, label, idx, failed, runlog, hist, ret, tcls, tdf, tdone>>

\* transformer.run()
run_object ==
  /\ pc = "constructed"
  /\ LET transformer == transformers[1]
     IN \E r \in { Run(transformer, fs) } :
          /\ hist' = Append(hist, [ obj |-> transformer, wave |-> label, exc |-> r.exc,
                                    calls |-> r.calls, log |-> r.log, written |-> r.written,
                                    got |-> r.got, found |-> Found(transformer, fs),
                                    bronze |-> BronzeOf(transformer, fs),
                                    changed |-> Changed(fs, r.fs) ])
          /\ fs' = r.fs
          /\ exc' = r.exc
          /\ pc' = IF r.exc = "none" THEN "done" ELSE "raised"
  /\ UNCHANGED <<entry, transformers, label, idx, failed, runlog, ret, tcls, tdf, tdone>>

InitConstruct ==
  /\ entry = "construct"
  /\ \E c \in ConstructorCalls :
       /\ tcls = [ cls |-> c[1], dim |-> c[2], df |-> EmptyDataFrame ]
       /\ IF c[1] \in GoldClassNames
          THEN fs \in InitialFiles
          ELSE fs \in BronzeFiles(ClassOf(c[1], c[2]))
  /\ pc = "construct"
  /\ exc = "none"
  /\ transformers = <<>>
  /\ label = ""
  /\ idx = 0
  /\ failed = <<>>
  /\ runlog = <<>>
  /\ hist = <<>>
  /\ ret = <<>>
  /\ tdf = EmptyDataFrame
  /\ tdone = <<>>

NextConstruct ==
  \/ construct_object
  \/ run_object

SpecConstruct == InitConstruct /\ [][NextConstruct]_vars

-------------------------------------------------------------------------------
(* The joins of the Gold assemblers, row by row.  A table is the sequence of  *)
(* its rows, a row a record of cells, a cell <<v>> for the value v and <<>>   *)
(* for a null.  Of a table's columns those are followed that carry a key.    *)

Null == <<>>

Cell(v) == <<v>>

\* rows.rename(columns={old: new})
RenameRows(rows, old, new) ==
  [ i \in DOMAIN rows |->
      [ c \in (DOMAIN rows[i] \ {old}) \cup {new} |->
          IF c = new THEN rows[i][old] ELSE rows[i][c] ] ]

\* Variant: an inner join, which drops the rows of left without a match.
MergeRows_inner(left, right, right_cols, left_on, right_on) ==
  LET RECURSIVE From(_)
      From(i) ==
        IF i > Len(left) THEN <<>>
        ELSE LET hits == SelectSeq(right, LAMBDA r : r[right_on] = left[i][left_on])
             IN [ j \in DOMAIN hits |-> left[i] @@ hits[j] ] \o From(i + 1)
  IN From(1)

\* left.merge(right, left_on=..., right_on=..., how="left") from the i-th
\* row of left on: the rows of left in order, each once per row of right
\* with an equal key (in the order of right), or once with nulls in the
\* columns of right when there is none.  right_cols are the columns of
\* right, none of which but the common key is a column of left.
RECURSIVE MergeRowsFrom(_, _, _, _, _, _)
MergeRowsFrom(left, right, right_cols, left_on, right_on, i) ==
  IF i > Len(left) THEN <<>>
  ELSE LET l    == left[i]
           hits == SelectSeq(right, LAMBDA r : r[right_on] = l[left_on])
       IN ( IF hits = <<>>
            THEN << l @@ [ c \in right_cols |-> Null ] >>
            ELSE [ j \in DOMAIN hits |-> l @@ hits[j] ] )
          \o MergeRowsFrom(left, right, right_cols, left_on, right_on, i + 1)

MergeRows(left, right, right_cols, left_on, right_on) ==
  MergeRowsFrom(left, right, right_cols, left_on, right_on, 1)

\* the frames after each merge of _build_responsible_market:
\* provinces + countries on country_id, then + cities on state_province_id
DimGeographyTransformer_build_responsible_market(tables) ==
  LET m1 == MergeRows(tables.provinces, tables.countries, {"country_id", "country_name"},
                      "country_id", "country_id")
      m2 == MergeRows(m1, tables.cities, {"state_province_id", "city_id"},
                      "state_province_id", "state_province_id")
  IN <<m1, m2>>

\* the frames after each merge of _build_orders_fact: orders + customers on
\* customer_id, + people on salesperson_id, + people on contact_person_id
\* (person_id of the two merges is suffixed _x and _y), + order_lines on
\* order_id
FactOrdersTransformer_build_orders_fact(tables) ==
  LET m1 == MergeRows(tables.orders, tables.customers, {"customer_id", "customer_name"},
                      "customer_id", "customer_id")
      m2 == RenameRows(MergeRows(m1, tables.people, {"person_id", "full_name"},
                                 "salesperson_id", "person_id"),
                       "full_name", "sales_person")
      m3 == RenameRows(MergeRows(RenameRows(m2, "person_id", "person_id_x"),
                                 RenameRows(tables.people, "person_id", "person_id_y"),
                                 {"person_id_y", "full_name"},
                                 "contact_person_id", "person_id_y"),
                       "full_name", "contact_person")
      m4 == MergeRows(m3, tables.order_lines, {"order_id", "order_line_id"},
                      "order_id", "order_id")
  IN <<m1, m2, m3, m4>>

\* a reference table with the keys 1 .. n
Reference(key, name, n) == [ k \in 1..n |-> [ c \in {key, name} |-> Cell(k) ] ]

\* the tables of at most MaxRows rows whose i-th row has the key i and,
\* in each of the columns fks, a foreign key among 1 .. MaxKey
Tables(key, fks) ==
  UNION { { [ i \in 1..n |-> [ c \in {key} \cup fks |->
                                 IF c = key THEN Cell(i) ELSE Cell(f[i]) ] ] :
              f \in [1..n -> 1..MaxKey] } :
          n \in 0..MaxRows }

\* the Silver tables _build_responsible_market is given
GeographyTables(p, n, c) ==
  [ provinces |-> p, countries |-> Reference("country_id", "country_name", n), cities |-> c ]

\* the Silver tables _build_orders_fact is given; an order names one person
\* as salesperson and as contact
OrdersTables(o, n, m, l) ==
  [ orders |-> [ i \in DOMAIN o |->
                   o[i] @@ [ c \in {"salesperson_id", "contact_person_id"} |->
                               o[i]["customer_id"] ] ],
    customers |-> Reference("customer_id", "customer_name", n),
    people |-> Reference("person_id", "full_name", m),
    order_lines |-> l ]

\* responsible_market = self._build_responsible_market(tables)
_build_responsible_market ==
  /\ pc = "join"
  /\ tcls.cls = "DimGeographyTransformer"
  /\ tdone' = DimGeographyTransformer_build_responsible_market(tdf)
  /\ pc' = "done"
  /\ UNCHANGED <<entry, fs, transformers, label, idx, failed, runlog, hist, exc, ret,
                 tcls, tdf>>

\* df = self._build_orders_fact(tables)
_build_orders_fact ==
  /\ pc = "join"
  /\ tcls.cls = "FactOrdersTransformer"
  /\ tdone' = FactOrdersTransformer_build_orders_fact(tdf)
  /\ pc' = "done"
  /\ UNCHANGED <<entry, fs, transformers, label, idx, failed, runlog, hist, exc, ret,
                 tcls, tdf>>

InitJoin ==
  /\ entry = "join"
  /\ \/ /\ tcls = [ cls |-> "DimGeographyTransformer", dim |-> "", df |-> EmptyDataFrame ]
        /\ \E p \in Tables("state_province_id", {"country_id"}) :
           \E n \in 0..MaxKey :
           \E c \in Tables("city_id", {"state_province_id"}) :
             tdf = GeographyTables(p, n, c)
     \/ /\ tcls = [ cls |-> "FactOrdersTransformer", dim |-> "", df |-> EmptyDataFrame ]
        /\ \E o \in Tables("order_id", {"customer_id"}) :
           \E n \in 0..MaxKey :
           \E m \in 0..MaxKey :
           \E l \in Tables("order_line_id", {"order_id"}) :
             tdf = OrdersTables(o, n, m, l)
  /\ tdone = <<>>
  /\ pc = "join"
  /\ exc = "none"
  /\ fs = GoodFiles
  /\ transformers = <<>>
  /\ label = ""
  /\ idx = 0
  /\ failed = <<>>
  /\ runlog = <<>>
  /\ hist = <<>>
  /\ ret = <<>>

NextJoin ==
  \/ _build_responsible_market
  \/ _build_orders_fact

SpecJoin == InitJoin /\ [][NextJoin]_vars

-------------------------------------------------------------------------------
(* The imputations of DimCustomerTransformer, row by row *)

\* value.fillna(other), cell by cell
FillNa(v, other) == IF v = Null THEN other ELSE v

RECURSIVE Sum(_, _)
Sum(cells, i) == IF i > Len(cells) THEN 0 ELSE cells[i][1] + Sum(cells, i + 1)

\* Series.mean(): the mean of the values that are not null, null when there
\* is none.  The credit limits of the model are multiples of
\* MaxCustomers!, so the division is exact.
Mean(cells) ==
  LET present == SelectSeq(cells, LAMBDA v : v # Null)
  IN IF present = <<>> THEN Null ELSE Cell(Sum(present, 1) \div Len(present))

Column(df, col) == [ i \in DOMAIN df |-> df[i][col] ]

\* Variant: the column stays in the table.
DropRows_none(df, col) == df

\* df.drop(columns=[col])
DropRows(df, col) ==
  [ i \in DOMAIN df |-> [ c \in DOMAIN df[i] \ {col} |-> df[i][c] ] ]

\* Variant: avg_credit is taken from the column once the parents' values
\* are filled in.
DimCustomerTransformer_impute_credit_limit_mean_after_fill(df) ==
  LET main_customer_credits ==
        [ i \in DOMAIN df |-> [ bill_to_customer_id |-> df[i].customer_id,
                                parent_credit_limit |-> df[i].credit_limit ] ]
      merged == MergeRows(df, main_customer_credits,
                          {"bill_to_customer_id", "parent_credit_limit"},
                          "bill_to_customer_id", "bill_to_customer_id")
      parent_filled ==
        [ i \in DOMAIN merged |->
            [ merged[i] EXCEPT !.credit_limit = FillNa(@, merged[i].parent_credit_limit) ] ]
      avg_credit == Mean(Column(parent_filled, "credit_limit"))
      filled ==
        [ i \in DOMAIN parent_filled |->
            [ parent_filled[i] EXCEPT !.credit_limit = FillNa(@, avg_credit) ] ]
  IN [ df |-> DropRows(filled, "parent_credit_limit"), avg_credit |-> avg_credit ]

\* Variant: a null credit limit is filled with the mean, whatever the parent has.
DimCustomerTransformer_impute_credit_limit_mean_only(df) ==
  LET avg_credit == Mean(Column(df, "credit_limit"))
  IN [ df |-> [ i \in DOMAIN df |-> [ df[i] EXCEPT !.credit_limit = FillNa(@, avg_credit) ] ],
       avg_credit |-> avg_credit ]

\* _impute_credit_limit(df): the self-join that brings each customer's
\* parent credit limit, avg_credit = df['credit_limit'].mean() taken from
\* the joined table before anything is filled, then
\* credit_limit.fillna(parent_credit_limit).fillna(avg_credit), and the
\* temporary column dropped.  The result and the avg_credit it used.
DimCustomerTransformer_impute_credit_limit(df) ==
  LET main_customer_credits ==
        [ i \in DOMAIN df |-> [ bill_to_customer_id |-> df[i].customer_id,
                                parent_credit_limit |-> df[i].credit_limit ] ]
      merged == MergeRows(df, main_customer_credits,
                          {"bill_to_customer_id", "parent_credit_limit"},
                          "bill_to_customer_id", "bill_to_customer_id")
      avg_credit == Mean(Column(merged, "credit_limit"))
      filled ==
        [ i \in DOMAIN merged |->
            [ merged[i] EXCEPT
                !.credit_limit = FillNa(FillNa(@, merged[i].parent_credit_limit), avg_credit) ] ]
  IN [ df |-> DropRows(filled, "parent_credit_limit"), avg_credit |-> avg_credit ]

\* A string is the sequence of its pieces: an upper-case letter, a
\* lower-case letter, a space, or the text " (Head Office)".
HeadOffice == " (Head Office)"

\* s.replace(old, ""), old being one piece
RECURSIVE StrRemove(_, _)
StrRemove(str, old) ==
  IF str = <<>> THEN <<>>
  ELSE ( IF Head(str) = old THEN <<>> ELSE <<Head(str)>> ) \o StrRemove(Tail(str), old)

\* s.lower()
StrLower(str) == [ i \in DOMAIN str |-> IF str[i] = "T" THEN "t" ELSE str[i] ]

\* Variant: the suffix stays in the name.
SynthesizedEmail_keeping_suffix(customer_name) ==
  <<"info@">> \o StrLower(StrRemove(customer_name, " ")) \o <<".com">>

\* 'info@' + name.replace(' (Head Office)', '').replace(' ', '').lower() + '.com'
SynthesizedEmail(customer_name) ==
  <<"info@">> \o StrLower(StrRemove(StrRemove(customer_name, HeadOffice), " ")) \o <<".com">>

\* _impute_contact_info(df): full_name.fillna('Head Office'), then row by
\* row the email kept when there is one and synthesized from customer_name
\* when there is none; calling .replace on a null customer_name raises
\* AttributeError.
DimCustomerTransformer_impute_contact_info(df) ==
  IF \E i \in DOMAIN df : df[i].email_address = Null /\ df[i].customer_name = Null
  THEN [ exc |-> "AttributeError", df |-> df ]
  ELSE [ exc |-> "none",
         df |-> [ i \in DOMAIN df |->
                   [ df[i] EXCEPT
                       !.full_name = FillNa(@, Cell(<<"Head Office">>)),
                       !.email_address =
                          IF @ # Null THEN @
                          ELSE Cell(SynthesizedEmail(df[i].customer_name[1])) ] ] ]

RECURSIVE Factorial(_)
Factorial(n) == IF n <= 1 THEN 1 ELSE n * Factorial(n - 1)

\* the credit limits a customer can have
CreditLimits == { Factorial(MaxCustomers), 4 * Factorial(MaxCustomers) }

\* the batch of n customers with the customer_id 1, 2, ..., each billed
\* as b says (to itself, to customer 1 or to nobody) and with the credit
\* limit c gives it
CustomerBatch(n, b, c) ==
  [ i \in 1..n |->
      [ customer_id |-> Cell(i),
        bill_to_customer_id |-> CASE b[i] = "self" -> Cell(i)
                                  [] b[i] = "first" -> Cell(1)
                                  [] b[i] = "none" -> Null,
        credit_limit |-> c[i] ] ]

\* the customer names of the model
CustomerNames ==
  { <<"T">>, <<"b">>, <<"T", " ", "b">>, <<"T", HeadOffice>>,
    <<"T", " ", "b", HeadOffice>>, <<"T", HeadOffice, " ", "b">> }

\* a customer with or without a name, an email address and a contact
ContactRows ==
  [ customer_name : {Null} \cup { Cell(name) : name \in CustomerNames },
    email_address : {Null, Cell(<<"x@y">>)},
    full_name : {Null, Cell(<<"P">>)} ]

\* df = self._impute_credit_limit(df)
_impute_credit_limit ==
  /\ pc = "_impute_credit_limit"
  /\ \E r \in { DimCustomerTransformer_impute_credit_limit(tdf) } :
       tdone' = << [ stage |-> "_impute_credit_limit", value |-> r.df,
                     avg_credit |-> r.avg_credit ] >>
  /\ pc' = "done"
  /\ UNCHANGED <<entry, fs, transformers, label, idx, failed, runlog, hist, exc, ret,
                 tcls, tdf>>

\* df = self._impute_contact_info(df).  On a table without rows
\* df.apply(..., axis=1) returns a frame instead of a column: the
\* assignment of it to df['email_address'] raises ValueError or leaves the
\* table empty, depending on the pandas release.
_impute_contact_info ==
  /\ pc = "_impute_contact_info"
  /\ \E r \in { DimCustomerTransformer_impute_contact_info(tdf) }
              \cup ( IF tdf = <<>> THEN { [ exc |-> "ValueError", df |-> tdf ] } ELSE {} ) :
       /\ exc' = r.exc
       /\ IF r.exc = "none"
          THEN /\ tdone' = << [ stage |-> "_impute_contact_info", value |-> r.df ] >>
               /\ pc' = "done"
          ELSE /\ UNCHANGED tdone
               /\ pc' = "raised"
  /\ UNCHANGED <<entry, fs, transformers, label, idx, failed, runlog, hist, ret, tcls, tdf>>

\* a batch of at most MaxCustomers customers for _impute_credit_limit, or a
\* table of at most MaxRows customers for _impute_contact_info
InitImpute ==
  /\ entry = "impute"
  /\ tcls = [ cls |-> "DimCustomerTransformer", dim |-> "", df |-> EmptyDataFrame ]
  /\ \/ /\ pc = "_impute_credit_limit"
        /\ \E n \in 0..MaxCustomers :
           \E b \in [1..n -> {"self", "first", "none"}] :
           \E c \in [1..n -> {Null} \cup { Cell(v) : v \in CreditLimits }] :
             tdf = CustomerBatch(n, b, c)
     \/ /\ pc = "_impute_contact_info"
        /\ \E n \in 0..MaxRows : tdf \in [1..n -> ContactRows]
  /\ tdone = <<>>
  /\ exc = "none"
  /\ fs = GoodFiles
  /\ transformers = <<>>
  /\ label = ""
  /\ idx = 0
  /\ failed = <<>>
  /\ runlog = <<>>
  /\ hist = <<>>
  /\ ret = <<>>

NextImpute ==
  \/ _impute_credit_limit
  \/ _impute_contact_info

SpecImpute == InitImpute /\ [][NextImpute]_vars

-------------------------------------------------------------------------------
(* What transform() of the dimension assemblers with delivery columns does   *)
(* to the selected table, row by row: the imputations and the renaming.     *)

\* df.rename(columns=column_mapping): a column the mapping names gets its
\* new name, any other keeps its own
RenameRowsBy(rows, column_mapping) ==
  LET RenamedTo(c) == IF c \in DOMAIN column_mapping THEN column_mapping[c] ELSE c
  IN [ i \in DOMAIN rows |->
         [ c \in { RenamedTo(k) : k \in DOMAIN rows[i] } |->
             rows[i][CHOOSE k \in DOMAIN rows[i] : RenamedTo(k) = c] ] ]

\* _impute_supplier_fields(df): internal_comments, delivery_address_line1
\* and delivery_method_name filled with their sentinels; no other column
\* is touched
DimSupplierTransformer_impute_supplier_fields(df) ==
  [ i \in DOMAIN df |->
      [ df[i] EXCEPT
          !.internal_comments = FillNa(@, Cell("Not available")),
          !.delivery_address_line1 = FillNa(@, Cell("No address line")),
          !.delivery_method_name = FillNa(@, Cell("Upon request")) ] ]

\* the column_mapping of DimSupplierTransformer._rename_columns, on the
\* columns of the model
DimSupplierTransformer_column_mapping ==
  [ delivery_method_name |-> "delivery_method",
    delivery_address_line2 |-> "delivery_street_address",
    delivery_address_line1 |-> "delivery_address_additional",
    internal_comments |-> "internal_comments" ]

\* the column_mapping of DimCustomerTransformer._rename_columns, on the
\* columns of the model
DimCustomerTransformer_column_mapping ==
  [ customer_id |-> "customer_id",
    customer_name |-> "customer_name",
    bill_to_customer_id |-> "parent_customer_id",
    credit_limit |-> "credit_limit_amount",
    full_name |-> "contact_full_name",
    email_address |-> "contact_email",
    delivery_address_line1 |-> "delivery_address_additional",
    delivery_address_line2 |-> "delivery_street_address",
    delivery_method_name |-> "delivery_method",
    city_name |-> "city",
    state_province_name |-> "state_name",
    country_name |-> "country" ]

\* DimSupplierTransformer.transform() from the selected table on:
\* _impute_supplier_fields, then _rename_columns
DimSupplierTransformer_impute_and_rename(df) ==
  [ exc |-> "none",
    df |-> RenameRowsBy(DimSupplierTransformer_impute_supplier_fields(df),
                        DimSupplierTransformer_column_mapping) ]

\* DimCustomerTransformer.transform() from the selected table on:
\* _impute_credit_limit, _impute_contact_info, _rename_columns and
\* _reorder_columns, which keeps every renamed column
DimCustomerTransformer_impute_and_rename(df) ==
  LET credit  == DimCustomerTransformer_impute_credit_limit(df).df
      contact == DimCustomerTransformer_impute_contact_info(credit)
  IN IF contact.exc # "none" THEN contact
     ELSE [ exc |-> "none",
            df |-> RenameRowsBy(contact.df, DimCustomerTransformer_column_mapping) ]

\* transform() of the assembler at hand, from the selected table to the
\* table it returns
impute_and_rename ==
  /\ pc = "impute"
  /\ \E r \in { IF tcls.cls = "DimSupplierTransformer"
                THEN DimSupplierTransformer_impute_and_rename(tdf)
                ELSE DimCustomerTransformer_impute_and_rename(tdf) } :
       /\ exc' = r.exc
       /\ IF r.exc = "none"
          THEN /\ tdone' = << [ stage |-> "impute", value |-> r.df ] >>
               /\ ret' = r.df
               /\ pc' = "done"
          ELSE /\ UNCHANGED <<tdone, ret>>
               /\ pc' = "raised"
  /\ UNCHANGED <<entry, fs, transformers, label, idx, failed, runlog, hist, tcls, tdf>>

\* Variant: no column counts as duplicated.
DuplicatedColumns_none(cols) == <<>>

\* df.columns[df.columns.duplicated()].tolist(): each occurrence of a
\* name after its first, in column order
DuplicatedColumns(cols) ==
  LET later == SelectSeq([ i \in DOMAIN cols |-> i ],
                         LAMBDA i : \E j \in 1..(i - 1) : cols[j] = cols[i])
  IN [ k \in DOMAIN later |-> cols[later[k]] ]

\* str(names) of a list of column names
RECURSIVE ListRepr(_, _)
ListRepr(names, i) ==
  IF i > Len(names) THEN "]"
  ELSE ( IF i = 1 THEN "[" ELSE ", " ) \o "'" \o names[i] \o "'"
       \o ( IF i = Len(names) THEN "]" ELSE ListRepr(names, i + 1) )

\* _build_purchases_fact over the loaded tables: purchases + people on the
\* contact person, + purchase_order_lines on purchase_order_id, the list of
\* line columns naming package_type_id twice; then the duplicated names
\* are logged and all but the first column of each name dropped.  The
\* table returned, the table the last merge gave, and the log.
FactPurchasesTransformer_build_purchases_fact(files) ==
  LET people               == load_silver(files, "dimensions/people.parquet")
      purchases            == load_silver(files, "purchasing/purchase_orders.parquet")
      purchase_order_lines == load_silver(files, "purchasing/purchase_order_lines.parquet")
      df1 == Rename(MergeLeft(purchases.df, Subscript(people.df, <<"person_id", "full_name">>),
                              "contact_person_id", "person_id"),
                    << <<"full_name", "contact_person">> >>)
      df2 == MergeLeft(df1,
               Subscript(purchase_order_lines.df,
                 <<"purchase_order_id", "purchase_order_line_id", "stock_item_id",
                   "ordered_outers", "received_outers", "package_type_id", "description",
                   "package_type_id", "expected_unit_price_per_outer", "last_receipt_date">>),
               "purchase_order_id", "purchase_order_id")
      duplicate_cols == IF df2.exc # "none" THEN <<>> ELSE DuplicatedColumns(df2.cols)
      first == SelectSeq([ i \in DOMAIN df2.cols |-> i ],
                         LAMBDA i : \A j \in 1..(i - 1) : df2.cols[j] # df2.cols[i])
      df3 == IF duplicate_cols = <<>> THEN df2
             ELSE Frame([ k \in DOMAIN first |-> df2.cols[first[k]] ], {}, df2.keys)
  IN [ df |-> df3, merged |-> df2,
       log |-> people.log \o purchases.log \o purchase_order_lines.log
               \o ( IF duplicate_cols = <<>> THEN <<>>
                    ELSE << "WARNING [JOIN] Removed duplicate columns: "
                            \o ListRepr(duplicate_cols, 1) >> ) ]

\* _build_orders_fact over the loaded tables: orders + customers on
\* customer_id, + people on the sales person, + people on the contact
\* person, + order_lines on order_id; the table of the last merge is returned
FactOrdersTransformer_build_orders_fact_columns(files) ==
  LET customers   == load_silver(files, "sales/customers.parquet")
      people      == load_silver(files, "dimensions/people.parquet")
      orders      == load_silver(files, "sales/orders.parquet")
      order_lines == load_silver(files, "sales/order_lines.parquet")
      df1 == MergeLeft(orders.df, Subscript(customers.df, <<"customer_id", "customer_name">>),
                       "customer_id", "customer_id")
      df2 == Rename(MergeLeft(df1, Subscript(people.df, <<"person_id", "full_name">>),
                              "salesperson_id", "person_id"),
                    << <<"full_name", "sales_person">> >>)
      df3 == Rename(MergeLeft(df2, Subscript(people.df, <<"person_id", "full_name">>),
                              "contact_person_id", "person_id"),
                    << <<"full_name", "contact_person">> >>)
      df4 == MergeLeft(df3,
               Subscript(order_lines.df,
                 <<"order_id", "order_line_id", "stock_item_id", "description",
                   "package_type_id", "quantity", "unit_price", "tax_rate",
                   "picked_quantity", "picking_completed_when">>),
               "order_id", "order_id")
  IN [ df |-> df4, merged |-> df4,
       log |-> customers.log \o people.log \o orders.log \o order_lines.log ]

\* the join step of a Gold assembler: the table handed to _select_columns,
\* the table its last merge gave, and the log
BuildJoined(cls, files) ==
  CASE cls = "FactPurchasesTransformer" -> FactPurchasesTransformer_build_purchases_fact(files)
    [] cls = "FactOrdersTransformer" -> FactOrdersTransformer_build_orders_fact_columns(files)
    [] OTHER -> LET t == GoldTransform(cls, files)
                IN [ df |-> t.joined, merged |-> t.joined, log |-> t.log ]

\* the Silver files of a healthy data directory, those the fact assemblers
\* load included
AssembleFiles ==
  LET classes == { OrderTransformer, OrderLineTransformer, PurchaseOrderTransformer,
                   PurchaseOrderLineTransformer }
  IN [ p \in { SilverPath(c) : c \in classes } |->
         LET c == CHOOSE k \in classes : SilverPath(k) = p
         IN FileOf(transform(c, SourceTable(c, {}, 1..MaxKey)).df, "old") ]
     @@ GoodFiles

\* tables = self._load_silver_tables(); df = self._build_...(tables)
build_joined ==
  /\ pc = "build"
  /\ \E r \in { BuildJoined(tcls.cls, fs) } :
       /\ exc' = r.df.exc
       /\ tdone' = << [ stage |-> "build", value |-> r.df, merged |-> r.merged,
                        log |-> r.log ] >>
       /\ pc' = IF r.df.exc = "none" THEN "select" ELSE "raised"
  /\ UNCHANGED <<entry, fs, transformers, label, idx, failed, runlog, hist, ret, tcls, tdf>>

\* rows[[names]]
SubscriptRows(rows, names) == [ i \in DOMAIN rows |-> [ c \in names |-> rows[i][c] ] ]

\* DimCustomerTransformer.transform() over the loaded tables, row by row:
\* _build_responsible_market (provinces + countries + cities),
\* _build_customer_dimension (customers + delivery_methods +
\* responsible_market on the delivery city + people on the primary contact),
\* _select_columns, and the imputations and renaming
DimCustomerTransformer_transform_rows(tables) ==
  LET m1 == MergeRows(tables.provinces,
                      SubscriptRows(tables.countries, {"country_id", "country_name"}),
                      {"country_id", "country_name"}, "country_id", "country_id")
      responsible_market ==
            MergeRows(m1,
                      SubscriptRows(tables.cities, {"state_province_id", "city_id", "city_name"}),
                      {"state_province_id", "city_id", "city_name"},
                      "state_province_id", "state_province_id")
      d1 == MergeRows(tables.customers,
                      SubscriptRows(tables.delivery_methods,
                                    {"delivery_method_id", "delivery_method_name"}),
                      {"delivery_method_id", "delivery_method_name"},
                      "delivery_method_id", "delivery_method_id")
      d2 == MergeRows(d1,
                      SubscriptRows(responsible_market,
                                    {"city_id", "city_name", "country_name", "state_province_name"}),
                      {"city_id", "city_name", "country_name", "state_province_name"},
                      "delivery_city_id", "city_id")
      d3 == MergeRows(d2,
                      SubscriptRows(tables.people, {"person_id", "full_name", "email_address"}),
                      {"person_id", "full_name", "email_address"},
                      "primary_contact_person_id", "person_id")
      columns == {"customer_id", "customer_name", "full_name", "email_address",
                  "bill_to_customer_id", "credit_limit", "delivery_method_name", "city_name",
                  "state_province_name", "country_name"}
  IN DimCustomerTransformer_impute_and_rename(SubscriptRows(d3, columns))

\* df = DimCustomerTransformer().transform()
transform_rows ==
  /\ pc = "transform"
  /\ \E r \in { DimCustomerTransformer_transform_rows(tdf) } :
       /\ exc' = r.exc
       /\ IF r.exc = "none"
          THEN /\ tdone' = << [ stage |-> "transform", value |-> r.df ] >>
               /\ ret' = r.df
               /\ pc' = "returned"
          ELSE /\ UNCHANGED <<tdone, ret>>
               /\ pc' = "failed"
  /\ UNCHANGED <<entry, fs, transformers, label, idx, failed, runlog, hist, tcls, tdf>>

\* the Silver tables DimCustomerTransformer loads: 1..MaxRows customers,
\* each billed to itself, delivered to city 1 by method 1 and with person 1
\* as contact, with or without a credit limit; and the reference tables,
\* each with its row 1 or, for those in empty, with its columns and no row
CustomerTables(n, credit, empty) ==
  LET Ref(name, row) == IF name \in empty THEN <<>> ELSE <<row>>
  IN [ customers |->
         [ i \in 1..n |->
             [ customer_id |-> Cell(i), customer_name |-> Cell(<<"T", " ", "b">>),
               bill_to_customer_id |-> Cell(i), credit_limit |-> credit[i],
               delivery_method_id |-> Cell(1), delivery_city_id |-> Cell(1),
               primary_contact_person_id |-> Cell(1) ] ],
       delivery_methods |->
         Ref("delivery_methods",
             [ delivery_method_id |-> Cell(1), delivery_method_name |-> Cell("Post") ]),
       provinces |->
         Ref("provinces", [ state_province_id |-> Cell(1), country_id |-> Cell(1),
                            state_province_name |-> Cell("Ohio") ]),
       countries |->
         Ref("countries", [ country_id |-> Cell(1), country_name |-> Cell("USA") ]),
       cities |->
         Ref("cities", [ city_id |-> Cell(1), state_province_id |-> Cell(1),
                         city_name |-> Cell("Akron") ]),
       people |->
         Ref("people", [ person_id |-> Cell(1), full_name |-> Cell(<<"P">>),
                         email_address |-> Cell(<<"x@y">>) ]) ]

\* Either the selected table of one of the two assemblers with delivery
\* columns, of 1..MaxRows rows; or an assembler about to load and join, in a
\* data directory that is healthy or in which one file is absent or holds
\* its columns and no row; or the tables DimCustomerTransformer loads.  A
\* delivery column or internal_comments holds a text or nothing; a customer
\* has the customer_id of its row, is billed to itself and named, and comes
\* with or without a credit limit and an email address.
InitAssemble ==
  /\ entry = "assemble"
  /\ \/ /\ pc = "impute"
        /\ fs = GoodFiles
        /\ \E cls \in {"DimSupplierTransformer", "DimCustomerTransformer"} :
           \E n \in 1..MaxRows :
             LET DeliveryCells == { Null, Cell("text") }
                 SupplierRows ==
                   [ internal_comments : DeliveryCells,
                     delivery_address_line1 : DeliveryCells,
                     delivery_address_line2 : DeliveryCells,
                     delivery_method_name : DeliveryCells ]
                 CustomerRows ==
                   [ customer_id : {Null},
                     customer_name : {Cell(<<"T", " ", "b">>)},
                     bill_to_customer_id : {Null},
                     credit_limit : {Null, Cell(Factorial(MaxCustomers))},
                     full_name : {Cell(<<"P">>)},
                     email_address : {Null, Cell(<<"x@y">>)},
                     delivery_address_line1 : DeliveryCells,
                     delivery_address_line2 : DeliveryCells,
                     delivery_method_name : DeliveryCells ]
             IN /\ tcls = [ cls |-> cls, dim |-> "", df |-> EmptyDataFrame ]
                /\ IF cls = "DimSupplierTransformer"
                   THEN tdf \in [1..n -> SupplierRows]
                   ELSE \E f \in [1..n -> CustomerRows] :
                          tdf = [ i \in 1..n |-> [ f[i] EXCEPT !.customer_id = Cell(i),
                                                               !.bill_to_customer_id = Cell(i) ] ]
     \/ /\ pc = "build"
        /\ tdf = <<>>
        /\ \E cls \in GoldClassNames \cup {"FactOrdersTransformer", "FactPurchasesTransformer"} :
             tcls = [ cls |-> cls, dim |-> "", df |-> EmptyDataFrame ]
        /\ \E p \in DOMAIN AssembleFiles :
           \E f \in { AssembleFiles[p], Missing, [ AssembleFiles[p] EXCEPT !.keys = {} ] } :
             fs = [ AssembleFiles EXCEPT ![p] = f ]
     \/ /\ pc = "transform"
        /\ fs = GoodFiles
        /\ tcls = [ cls |-> "DimCustomerTransformer", dim |-> "", df |-> EmptyDataFrame ]
        /\ \E n \in 1..MaxRows :
           \E credit \in [1..n -> {Null, Cell(Factorial(MaxCustomers))}] :
           \E empty \in SUBSET {"delivery_methods", "provinces", "countries", "cities", "people"} :
             tdf = CustomerTables(n, credit, empty)
  /\ tdone = <<>>
  /\ exc = "none"
  /\ transformers = <<>>
  /\ label = ""
  /\ idx = 0
  /\ failed = <<>>
  /\ runlog = <<>>
  /\ hist = <<>>
  /\ ret = <<>>

NextAssemble ==
  \/ impute_and_rename
  \/ build_joined
  \/ transform_rows

SpecAssemble == InitAssemble /\ [][NextAssemble]_vars

-------------------------------------------------------------------------------
(* The cast stage of the Bronze -> Silver transformers, value by value.  A   *)
(* value read from the CSV is the text of its field; a converted value      *)
(* names its type.                                                           *)

\* pd.to_datetime(series, errors="coerce").astype("datetime64[ns]"): a date
\* is parsed, anything else (a null, a text that is no date) becomes NaT
BaseTransformer_to_datetime(series) ==
  [ i \in DOMAIN series |->
      IF series[i] = Cell("2013-01-01") THEN Cell("Timestamp('2013-01-01')") ELSE Null ]

\* series.astype("Int64"): nulls stay, whole numbers become Int64; a text
\* that is no number raises ValueError, a number with a fraction TypeError
AsTypeInt64(series) ==
  IF \E i \in DOMAIN series : series[i] = Cell("abc")
  THEN [ exc |-> "ValueError", values |-> series ]
  ELSE IF \E i \in DOMAIN series : series[i] = Cell("1.5")
  THEN [ exc |-> "TypeError", values |-> series ]
  ELSE [ exc |-> "none",
         values |-> [ i \in DOMAIN series |->
                        IF series[i] = Cell("7") THEN Cell("Int64(7)") ELSE series[i] ] ]

\* the statements of _cast_dtypes from the i-th on, over the rows of df: the
\* table they leave or the exception, and the casts logged.  df[col] raises
\* KeyError for a column the table lacks, unless the statement is guarded.
RECURSIVE CastRowsFrom(_, _, _)
CastRowsFrom(ops, i, r) ==
  IF i > Len(ops) \/ r.exc # "none" THEN r
  ELSE LET kind    == ops[i][1]
           col     == ops[i][2]
           df      == r.df
           Set(vs) == [ k \in DOMAIN df |-> [ df[k] EXCEPT ![col] = vs[k] ] ]
       IN CastRowsFrom(ops, i + 1,
            IF col \notin DOMAIN df[1]
            THEN ( IF kind = "datetime_if_present" THEN r
                   ELSE [ r EXCEPT !.exc = "KeyError" ] )
            ELSE IF kind \in {"datetime", "datetime_if_present"}
            THEN [ r EXCEPT !.df = Set(BaseTransformer_to_datetime(Column(df, col))),
                            !.log = Append(@, "INFO [TRANSFORM] Cast to datetime: " \o col) ]
            ELSE IF kind = "Int64"
            THEN LET cast == AsTypeInt64(Column(df, col))
                 IN IF cast.exc # "none" THEN [ r EXCEPT !.exc = cast.exc ]
                    ELSE [ r EXCEPT !.df = Set(cast.values),
                                    !.log = Append(@, "INFO [TRANSFORM] Cast to Int64: " \o col) ]
            ELSE IF kind = "drop"
            THEN [ r EXCEPT !.df = DropRows(df, col) ]
            ELSE r)

\* A table of n rows at the cast stage of class self: the columns its
\* _cast_dtypes names and one it does not, every value fit for its column's
\* cast, but that the first row's value of column col is what says: fit,
\* a text no cast can parse, a number with a fraction (in a column cast
\* to Int64), or null; or that the column is absent.
CastTable(self, n, col, what) ==
  LET kinds == [ c \in { self.cast[i][2] : i \in DOMAIN self.cast } |->
                   self.cast[CHOOSE i \in DOMAIN self.cast : self.cast[i][2] = c][1] ]
      cols  == ( DOMAIN kinds \cup {"other"} ) \ ( IF what = "absent" THEN {col} ELSE {} )
      Fit(c) == IF c = "other" THEN Cell("abc")
                ELSE IF kinds[c] \in {"datetime", "datetime_if_present"} THEN Cell("2013-01-01")
                ELSE Cell("7")
  IN [ k \in 1..n |->
         [ c \in cols |->
             IF k = 1 /\ c = col
             THEN CASE what = "fit" -> Fit(c)
                    [] what = "text" -> Cell("abc")
                    [] what = "fraction" -> Cell("1.5")
                    [] what = "null" -> Null
             ELSE Fit(c) ] ]

\* df = self._cast_dtypes(df)
cast_rows ==
  /\ pc = "_cast_dtypes"
  /\ \E r \in { CastRowsFrom(ClassOf(tcls.cls, tcls.dim).cast, 1,
                             [ exc |-> "none", df |-> tdf, log |-> <<>> ]) } :
       /\ exc' = r.exc
       /\ tdone' = << [ stage |-> "_cast_dtypes", value |-> r.df, log |-> r.log ] >>
       /\ pc' = IF r.exc = "none" THEN "done" ELSE "raised"
  /\ UNCHANGED <<entry, fs, transformers, label, idx, failed, runlog, hist, ret, tcls, tdf>>

\* a Silver transformer of any class at its cast stage, with a table of
\* 1..MaxRows rows
InitCast ==
  /\ entry = "cast"
  /\ pc = "_cast_dtypes"
  /\ \E reg \in { SilverRegistrations[i] : i \in DOMAIN SilverRegistrations } :
     \E n \in 1..MaxRows :
       LET self == ClassOf(reg[1], reg[2])
       IN /\ tcls = [ cls |-> reg[1], dim |-> reg[2], df |-> EmptyDataFrame ]
          /\ \E i \in DOMAIN self.cast :
             \E what \in {"fit", "text", "null", "absent"}
                          \cup ( IF self.cast[i][1] = "Int64" THEN {"fraction"} ELSE {} ) :
               tdf = CastTable(self, n, self.cast[i][2], what)
  /\ tdone = <<>>
  /\ exc = "none"
  /\ fs = GoodFiles
  /\ transformers = <<>>
  /\ label = ""
  /\ idx = 0
  /\ failed = <<>>
  /\ runlog = <<>>
  /\ hist = <<>>
  /\ ret = <<>>

NextCast ==
  \/ cast_rows

SpecCast == InitCast /\ [][NextCast]_vars

-------------------------------------------------------------------------------
(* _impute_credit_limit on batches whose customer_id may repeat *)

\* the most customers of a batch whose customer_id may repeat
MaxRepeated == 3

\* the customer_id columns of n customers: 1 first, and each next customer
\* with the customer_id of the one before it or the next one
CustomerIds(n) ==
  { ids \in [1..n -> 1..n] :
      /\ n > 0 => ids[1] = 1
      /\ \A i \in 2..n : ids[i] \in {ids[i - 1], ids[i - 1] + 1} }

\* the batch of customers with the customer_id ids gives, each billed as b
\* says (to its own customer_id, to customer_id 1 or to nobody) and with
\* the credit limit c gives it
CustomerBatchOf(ids, b, c) ==
  [ i \in DOMAIN ids |->
      [ customer_id |-> Cell(ids[i]),
        bill_to_customer_id |-> CASE b[i] = "self" -> Cell(ids[i])
                                  [] b[i] = "first" -> Cell(1)
                                  [] b[i] = "none" -> Null,
        credit_limit |-> c[i] ] ]

\* a batch of at most MaxRepeated customers, with or without repeated
\* customer_id, for _impute_credit_limit
InitImputeRepeated ==
  /\ entry = "impute_repeated"
  /\ tcls = [ cls |-> "DimCustomerTransformer", dim |-> "", df |-> EmptyDataFrame ]
  /\ pc = "_impute_credit_limit"
  /\ \E n \in 0..MaxRepeated :
     \E ids \in CustomerIds(n) :
     \E b \in [1..n -> {"self", "first", "none"}] :
     \E c \in [1..n -> {Null} \cup { Cell(v) : v \in CreditLimits }] :
       tdf = CustomerBatchOf(ids, b, c)
  /\ tdone = <<>>
  /\ exc = "none"
  /\ fs = GoodFiles
  /\ transformers = <<>>
  /\ label = ""
  /\ idx = 0
  /\ failed = <<>>
  /\ runlog = <<>>
  /\ hist = <<>>
  /\ ret = <<>>

NextImputeRepeated == _impute_credit_limit

SpecImputeRepeated == InitImputeRepeated /\ [][NextImputeRepeated]_vars


-------------------------------------------------------------------------------
(* Properties *)

\* the class whose run() an object executes
RunOf(o) == Definer(ClassOf(o.cls, o.dim), "run")

Logged(log, line) == \E i \in DOMAIN log : log[i] = line

\* the names of the transformers whose run() raised, in run order
Raisers(h) ==
  LET bad == SelectSeq(h, LAMBDA e : e.exc # "none")
  IN [ i \in DOMAIN bad |-> bad[i].obj.cls ]

Succeeded(h) == Cardinality({ k \in DOMAIN h : h[k].exc = "none" })

\* C1: every transformer run_all registers in its Silver wave can be
\* constructed, and a run() of a Silver transformer that loads a table with
\* rows calls load_bronze, transform, save_silver in that order and writes
\* exactly silver_dir/_output_filename.
C1_SilverWaveConstructsAndRuns ==
  /\ \A i \in DOMAIN SilverRegistrations :
       Construct(SilverRegistrations[i][1], SilverRegistrations[i][2]) = "none"
  /\ \A k \in DOMAIN hist :
       ( /\ RunOf(hist[k].obj) = "SilverTransformer"
         /\ ~ Falsy(hist[k].obj.ofn)
         /\ hist[k].found = "rows" )
       => /\ SelectSeq(hist[k].calls, LAMBDA m : m \in {"load_bronze", "transform", "save_silver"})
               = <<"load_bronze", "transform", "save_silver">>
          /\ hist[k].written = << SilverPath(ClassOf(hist[k].obj.cls, hist[k].obj.dim)) >>

\* C2: in _run_transformers an exception of a run() never escapes: it is
\* logged as an ERROR line with the transformer's name and the exception,
\* the name is put on the failure list, and the loop goes on, so that when
\* the call returns every transformer of the list has had its run() attempted.
C2_FailureCaughtLoggedAndLoopContinues ==
  entry = "_run_transformers" =>
    /\ exc = "none"
    /\ pc \in {"loop", "done"}
    /\ Len(hist) = idx
    /\ Len(runlog) = idx
    /\ pc = "done" => idx = Len(transformers)
    /\ \A k \in DOMAIN hist :
         /\ hist[k].obj = transformers[k]
         /\ hist[k].exc # "none" =>
              /\ runlog[k] = [ level |-> "ERROR", wave |-> Upper(label),
                               name |-> transformers[k].cls, status |-> "FAILED",
                               text |-> hist[k].exc ]
              /\ \E j \in DOMAIN failed : failed[j] = transformers[k].cls

\* a run() raised and the transformers after it were run all the same
C2_Witness ==
  /\ entry = "_run_transformers"
  /\ pc = "done"
  /\ Len(hist) = 3
  /\ hist[1].exc # "none"
  /\ hist[2].exc = "none"
  /\ hist[3].exc # "none"
  /\ failed = << transformers[1].cls, transformers[3].cls >>

\* C3: run_all never raises: whatever building and running the registered
\* transformers does, run_all reaches its summary and returns.
C3_RunAllNeverRaises ==
  entry = "run_all" => (exc = "none" /\ pc # "raised")

\* C4: run_all runs the transformers one at a time in list order, every
\* Silver run() before the first Gold run(), and every Gold transformer is
\* attempted whatever the Silver wave did: once run_all is over, the runs
\* attempted are the Silver list followed by the Gold list.
C4_WavesInOrderGoldAlwaysAttempted ==
  (entry = "run_all" /\ pc \in {"done", "raised"}) =>
    [ k \in DOMAIN hist |-> hist[k].obj ]
      = Objects(SilverRegistrations) \o Objects(GoldRegistrations)

\* C5: the failure list of _run_transformers is exactly the names of the
\* transformers whose run() raised, in run order; the count of successes the
\* wave report and the summary compute from it is the total less the
\* failures, which is the number of run() calls that returned.
C5_FailureListAndCounts ==
  entry = "_run_transformers" =>
    /\ failed = Raisers(hist)
    /\ pc = "done" =>
         /\ ret = << Raisers(hist) >>
         /\ WaveReport(label, transformers, ret[1]).ok = Succeeded(hist)
         /\ WaveReport(label, transformers, ret[1]).ok = Len(transformers) - Len(ret[1])
         /\ WaveReport(label, transformers, ret[1]).of = Len(transformers)
         /\ LET lines == Summary(transformers, <<>>, ret[1], <<>>)
            IN IF ret[1] = <<>>
               THEN lines = << [ level |-> "INFO", completed |-> Len(transformers) ] >>
               ELSE /\ lines[1].failed = Raisers(hist)
                    /\ lines[2].ok = Succeeded(hist)
                    /\ lines[2].of = Len(transformers)

\* three transformers, the second raises: the third is run, and the report
\* is 2 of 3 with the second named
C5_Witness ==
  /\ entry = "_run_transformers"
  /\ pc = "done"
  /\ Len(transformers) = 3
  /\ Len(hist) = 3
  /\ hist[1].exc = "none"
  /\ hist[2].exc # "none"
  /\ hist[3].exc = "none"
  /\ ret = << << transformers[2].cls >> >>
  /\ WaveReport(label, transformers, ret[1]).ok = 2

\* C6: run() of a Silver or Gold transformer whose _output_filename is
\* absent or "" raises NotImplementedError at once: _check_output_filename
\* is its only call, nothing is loaded, transformed, logged or written.
C6_UnsetOutputFilenameRaisesFirst ==
  \A k \in DOMAIN hist :
    Falsy(hist[k].obj.ofn) =>
      /\ hist[k].exc = "NotImplementedError"
      /\ hist[k].calls = <<"_check_output_filename">>
      /\ hist[k].got = Got("-", "-")
      /\ hist[k].log = <<>>
      /\ hist[k].written = <<>>
      /\ hist[k].changed = {}

\* a Silver transformer with "" and a Gold assembler without the attribute
\* have both been run
C6_Witness ==
  /\ \E k \in DOMAIN hist :
       /\ hist[k].obj.ofn = ""
       /\ RunOf(hist[k].obj) = "SilverTransformer"
       /\ hist[k].exc = "NotImplementedError"
  /\ \E k \in DOMAIN hist :
       /\ hist[k].obj.ofn = "UNSET"
       /\ RunOf(hist[k].obj) = "GoldTransformer"
       /\ hist[k].exc = "NotImplementedError"

\* C7: when the Bronze path does not exist or the table has no rows,
\* load_bronze hands back an empty table without raising (logging an error
\* for the missing path), and SilverTransformer.run logs its abort and
\* returns: transform and save are not called, no file changes, nothing is
\* raised.
C7_EmptyLoadAbortsSilverRun ==
  \A k \in DOMAIN hist :
    ( /\ RunOf(hist[k].obj) = "SilverTransformer"
      /\ ~ Falsy(hist[k].obj.ofn)
      /\ hist[k].found \in {"missing", "no rows"} )
    => /\ hist[k].got = Got("empty", "-")
       /\ hist[k].exc = "none"
       /\ hist[k].calls = <<"_check_output_filename", "load_bronze">>
       /\ hist[k].found = "missing" => Logged(hist[k].log, "ERROR [LOAD] Bronze file not found")
       /\ Logged(hist[k].log, "ERROR [RUN] Aborting - empty DataFrame after load")
       /\ hist[k].written = <<>>
       /\ hist[k].changed = {}

\* a Silver run found its Bronze file missing and aborted
C7_Witness ==
  \E k \in DOMAIN hist :
    /\ RunOf(hist[k].obj) = "SilverTransformer"
    /\ hist[k].found = "missing"
    /\ hist[k].calls = <<"_check_output_filename", "load_bronze">>
    /\ hist[k].exc = "none"

\* C8: GoldTransformer.run: an exception of transform() is logged and
\* raised again and nothing is saved; an empty result is logged as an error
\* and run() returns without saving or raising; a result with rows, and
\* only that, is saved, as gold/_output_filename.
C8_GoldRunOutcomes ==
  \A k \in DOMAIN hist :
    ( RunOf(hist[k].obj) = "GoldTransformer" /\ ~ Falsy(hist[k].obj.ofn) ) =>
      LET h == hist[k]
      IN /\ h.got.transform \notin {"-", "empty", "rows"} =>
              /\ h.exc = h.got.transform
              /\ h.log[Len(h.log)] = "ERROR [RUN] Error during transformation"
              /\ h.written = <<>> /\ h.changed = {}
         /\ h.got.transform = "empty" =>
              /\ h.exc = "none"
              /\ h.log[Len(h.log)] = "ERROR [RUN] Aborting - empty DataFrame after transform"
              /\ h.written = <<>> /\ h.changed = {}
         /\ h.got.transform = "rows" =>
              /\ h.exc = "none"
              /\ h.written = << "gold/" \o h.obj.ofn >>
              /\ h.changed \subseteq { "gold/" \o h.obj.ofn }
         /\ h.got.transform # "-"

\* a Gold run whose transform() raised: logged, raised again, nothing saved
C8_Witness ==
  \E k \in DOMAIN hist :
    /\ RunOf(hist[k].obj) = "GoldTransformer"
    /\ hist[k].got.transform = "KeyError"
    /\ hist[k].exc = "KeyError"
    /\ hist[k].written = <<>>

\* C9: when an input file a transform requires is absent, run() logs an
\* error, returns without writing and raises nothing, for the Gold
\* assemblers as for the Silver transformers.
C9_MissingInputAbortsCleanly ==
  \A k \in DOMAIN hist :
    ( /\ ~ Falsy(hist[k].obj.ofn)
      /\ \/ Logged(hist[k].log, "ERROR [LOAD] Silver file not found")
         \/ Logged(hist[k].log, "ERROR [LOAD] Bronze file not found") )
    => /\ hist[k].exc = "none"
       /\ hist[k].written = <<>>
       /\ hist[k].changed = {}

\* the stage order every transform() is to follow
Stages == <<"_drop_empty_columns", "_rename_columns", "_cast_dtypes", "_handle_nulls">>

\* C10: transform() of every Silver transformer calls drop-empty-columns,
\* rename, cast, validate-nulls in this order and no other stage; the first
\* gets the table transform() was given and each later one the table the
\* stage before it returned; a transform() that returns has called each
\* once and returns what the last returned, and one that raises stops at
\* the stage that raised.
C10_StagesInFixedOrder ==
  entry = "transform" =>
    /\ Len(tdone) <= Len(Stages)
    /\ \A i \in DOMAIN tdone :
         /\ tdone[i].stage = Stages[i]
         /\ tdone[i].arg = IF i = 1 THEN tcls.df ELSE tdone[i - 1].value
    /\ pc = "done" =>
         /\ Len(tdone) = Len(Stages)
         /\ tdf = tdone[Len(tdone)].value
         /\ tdf = transform(ClassOf(tcls.cls, tcls.dim), tcls.df).df
    /\ pc = "raised" =>
         /\ tdone # <<>>
         /\ tdone[Len(tdone)].value.exc = exc
         /\ transform(ClassOf(tcls.cls, tcls.dim), tcls.df).df.exc = exc

\* OrderTransformer.transform has returned after its four stages, the
\* first of which dropped a wholly null column
C10_Witness ==
  /\ entry = "transform"
  /\ pc = "done"
  /\ tcls.cls = "OrderTransformer"
  /\ tcls.df.allnull # {}
  /\ Len(tdone) = 4
  /\ Len(tdone[1].value.cols) < Len(tdone[1].arg.cols)

\* the lines logged at level ERROR
ErrorLines ==
  { "ERROR [LOAD] Bronze file not found", "ERROR [LOAD] Silver file not found",
    "ERROR [RUN] Aborting - empty DataFrame after load",
    "ERROR [RUN] Error during transformation",
    "ERROR [RUN] Aborting - empty DataFrame after transform" }

\* C11: the validate-nulls stage of every Silver transformer changes
\* nothing: whenever it returns, what it returns is the table it was given,
\* with the same rows, columns, values and nulls; it does not return only
\* when a column it reads by name is absent (KeyError).
C11_ValidateNullsReturnsItsArgument ==
  entry = "transform" =>
    \A i \in DOMAIN tdone :
      tdone[i].stage = "_handle_nulls" =>
        LET self == ClassOf(tcls.cls, tcls.dim)
        IN /\ tdone[i].value.exc = "none" => tdone[i].value = tdone[i].arg
           /\ tdone[i].value.exc # "none" =>
                /\ tdone[i].value.exc = "KeyError"
                /\ \E j \in DOMAIN (self.expected \o self.required) :
                     (self.expected \o self.required)[j] \notin Columns(tdone[i].arg)

\* CustomerTransformer's hook has returned a table with nulls in a required
\* column, and warned about them
C11_Witness ==
  /\ entry = "transform"
  /\ pc = "done"
  /\ tcls.cls = "CustomerTransformer"
  /\ \E i \in DOMAIN tdone :
       /\ tdone[i].stage = "_handle_nulls"
       /\ "customer_name" \in tdone[i].arg.nulls
       /\ tdone[i].value = tdone[i].arg
       /\ Logged(tdone[i].log, "WARNING [NULLS] Unexpected nulls in customer_name")

\* the required columns of the class of o that hold nulls once transform()
\* has run on the Bronze file f: those a column of f with nulls among its
\* values is renamed to, f being a table with rows and every column the
\* stages read
RequiredWithNulls(o, f) ==
  LET self == ClassOf(o.cls, o.dim)
  IN IF f.kind # "file" \/ f.keys = {} \/ f.allnull # {} THEN {}
     ELSE { self.required[i] : i \in DOMAIN self.required }
            \cap { RenameGet(self.rename, c) : c \in f.nulls }

\* C12: when a required column holds a null after transform, a Silver
\* run() logs a warning for the column and nothing at level ERROR, raises
\* nothing and saves the table, with every row of the source and with the
\* nulls still in the column.
C12_RequiredNullWarnsAndSaves ==
  \A k \in DOMAIN hist :
    LET h    == hist[k]
        path == ClassOf(h.obj.cls, h.obj.dim).silver_dir \o "/" \o h.obj.ofn
    IN ( /\ RunOf(h.obj) = "SilverTransformer"
         /\ ~ Falsy(h.obj.ofn)
         /\ RequiredWithNulls(h.obj, h.bronze) # {} )
       => /\ \A c \in RequiredWithNulls(h.obj, h.bronze) :
               Logged(h.log, "WARNING [NULLS] Unexpected nulls in " \o c)
          /\ \A i \in DOMAIN h.log : h.log[i] \notin ErrorLines
          /\ h.exc = "none"
          /\ h.written = <<path>>
          /\ k = Len(hist) =>
               /\ fs[path].kind = "file"
               /\ fs[path].gen = "new"
               /\ fs[path].keys = h.bronze.keys
               /\ RequiredWithNulls(h.obj, h.bronze) \subseteq fs[path].nulls

\* StockItemTransformer has run on an export with nulls among its unit
\* prices, warned, and saved the table
C12_Witness ==
  /\ hist # <<>>
  /\ LET h == hist[Len(hist)]
     IN /\ h.obj.cls = "StockItemTransformer"
        /\ "UnitPrice" \in h.bronze.nulls
        /\ Logged(h.log, "WARNING [NULLS] Unexpected nulls in unit_price")
        /\ h.exc = "none"
        /\ h.written # <<>>
        /\ "unit_price" \in fs[h.written[1]].nulls

\* C13: constructing DimensionTransformer with a name that is not a key of
\* DIMENSIONS_CONFIG raises in the constructor call: no transformer object
\* is produced and run() is never reached.
C13_UnknownDimensionRaisesAtConstruction ==
  ( /\ entry = "construct"
    /\ tcls.cls = "DimensionTransformer"
    /\ tcls.dim \notin DOMAIN DIMENSIONS_CONFIG )
  => /\ pc \in {"construct", "raised"}
     /\ transformers = <<>>
     /\ hist = <<>>
     /\ pc = "raised" => exc \in {"TypeError", "ValueError"}

\* DimensionTransformer("unknown") has raised
C13_Witness ==
  /\ entry = "construct"
  /\ tcls.cls = "DimensionTransformer"
  /\ tcls.dim = "unknown"
  /\ pc = "raised"
  /\ exc # "none"
  /\ transformers = <<>>

\* C14: for every key of DIMENSIONS_CONFIG, DimensionTransformer(name) can
\* be constructed and its run() raises nothing and, when the Bronze source
\* has rows, writes the file the configuration names as silver_file.
C14_EveryConfiguredDimensionRuns ==
  ( /\ entry = "construct"
    /\ tcls.cls = "DimensionTransformer"
    /\ tcls.dim \in DOMAIN DIMENSIONS_CONFIG )
  => /\ pc # "raised"
     /\ pc = "done" =>
          /\ hist[1].exc = "none"
          /\ hist[1].found = "rows" =>
               /\ hist[1].written
                    = << "dimensions/" \o DIMENSIONS_CONFIG[tcls.dim].silver_file >>
               /\ fs[hist[1].written[1]].gen = "new"

\* The bespoke counterpart of a DimensionTransformer: a SilverTransformer
\* subclass that inherits run() and transform() and overrides the rename
\* hook with the same map and the cast hook with the same date columns,
\* written as the hooks of the bespoke classes are (CitiesTransformer:
\* df[col] = self._to_datetime(df[col])).
BespokeTransformer(self) ==
  [ self EXCEPT !.name = "BespokeTransformer", !.base = "SilverTransformer",
                !.defines = {"__init__", "_rename_columns", "_cast_dtypes"},
                !.cast = [ i \in DOMAIN self.cast |-> <<"datetime", self.cast[i][2]>> ] ]

\* C15: on a source table of the simple pattern DimensionTransformer
\* produces what the bespoke SilverTransformer subclass with the same
\* rename map and the same date columns produces: where the bespoke one
\* can be constructed and run, so can DimensionTransformer, and it saves
\* the same table (rows, column names in order, nulls).
C15_DimensionTransformerMatchesBespoke ==
  ( /\ entry = "construct"
    /\ tcls.cls = "DimensionTransformer"
    /\ tcls.dim \in DOMAIN DIMENSIONS_CONFIG
    /\ pc # "construct" )
  => LET self    == DimensionTransformer(tcls.dim)
         bespoke == BespokeTransformer(self)
     IN ( AbstractMethods(bespoke) = {} /\ Definer(bespoke, "run") = "SilverTransformer" )
        => /\ transformers # <<>>
           /\ pc = "done" =>
                LET t == transform(bespoke, ReadFile(hist[1].bronze)).df
                IN /\ hist[1].exc = t.exc
                   /\ hist[1].found = "rows" =>
                        /\ hist[1].written = << SilverPath(self) >>
                        /\ fs[SilverPath(self)] = FileOf(t, "new")

\* the primary table of the assembler whose joins are followed, and its key
Anchor == IF tcls.cls = "DimGeographyTransformer" THEN tdf.provinces ELSE tdf.orders

AnchorKey == IF tcls.cls = "DimGeographyTransformer" THEN "state_province_id" ELSE "order_id"

\* C16: after all the joins of a Gold assembler the table has as many rows
\* as the assembler's primary table, and every primary row is among them,
\* whether or not it found a match.
C16_JoinsKeepAnchorRowCount ==
  ( entry = "join" /\ pc = "done" )
  => LET joined == tdone[Len(tdone)]
     IN /\ Len(joined) = Len(Anchor)
        /\ \A i \in DOMAIN Anchor :
             \E j \in DOMAIN joined : joined[j][AnchorKey] = Anchor[i][AnchorKey]

\* the columns of the select list of a Gold run that its joined table lacks
AbsentSelected(h) ==
  { h.got.select[i] : i \in DOMAIN h.got.select } \ Columns(h.got.joined)

\* C17: in every Gold assembler, when a column of the select list is absent
\* from the joined table, transform() raises and run() raises it again,
\* writing nothing; when transform() returns, its table has exactly the
\* selected columns, once each, under their final names.
C17_AbsentSelectedColumnFails ==
  \A k \in DOMAIN hist :
    LET h == hist[k]
    IN ( RunOf(h.obj) = "GoldTransformer" /\ h.got.transform # "-" )
       => /\ ( h.got.joined.exc = "none" /\ AbsentSelected(h) # {} ) =>
               /\ h.got.transform = "KeyError"
               /\ h.exc = "KeyError"
               /\ h.written = <<>>
               /\ h.changed = {}
          /\ h.got.transform \in {"rows", "empty"} =>
               /\ AbsentSelected(h) = {}
               /\ { h.got.cols[i] : i \in DOMAIN h.got.cols }
                    = { RenameGet(h.got.rename, h.got.select[i]) : i \in DOMAIN h.got.select }
               /\ Len(h.got.cols) = Len(h.got.select)

\* DimStockItemTransformer has run on a stock_items.parquet without the
\* selected column search_details, and raised
C17_Witness ==
  \E k \in DOMAIN hist :
    /\ hist[k].obj.cls = "DimStockItemTransformer"
    /\ hist[k].got.transform = "KeyError"
    /\ hist[k].got.joined.exc = "none"
    /\ AbsentSelected(hist[k]) = {"search_details"}
    /\ hist[k].exc = "KeyError"

\* the customers of the batch tdf that customer i is billed to
Parents(i) == { j \in DOMAIN tdf : tdf[j].customer_id = tdf[i].bill_to_customer_id }

\* the credit limit customer i has after the call
Imputed(i) == tdone[1].value[i].credit_limit

\* the mean of the credit limits the batch came with
BatchMean == Mean(Column(tdf, "credit_limit"))

\* C18: _impute_credit_limit gives a customer without a credit limit whose
\* parent has one exactly the parent's, not the mean; one without a credit
\* limit and without a parent's value the mean of the credit limits of the
\* batch that are not null; and leaves a credit limit that is not null as
\* it is.
C18_ParentThenMean ==
  ( entry = "impute" /\ pc = "done" /\ tdone[1].stage = "_impute_credit_limit" )
  => /\ Len(tdone[1].value) = Len(tdf)
     /\ \A i \in DOMAIN tdf :
          /\ tdf[i].credit_limit # Null => Imputed(i) = tdf[i].credit_limit
          /\ tdf[i].credit_limit = Null =>
               /\ \A j \in Parents(i) :
                    tdf[j].credit_limit # Null => Imputed(i) = tdf[j].credit_limit
               /\ ( \A j \in Parents(i) : tdf[j].credit_limit = Null ) =>
                    Imputed(i) = BatchMean

\* customer 2 got the credit limit of its parent, customer 1, and customer
\* 3, billed to itself, the mean of the batch, which is another value
C18_Witness ==
  /\ entry = "impute"
  /\ pc = "done"
  /\ tdone[1].stage = "_impute_credit_limit"
  /\ Len(tdf) = 4
  /\ tdf[1].credit_limit # Null
  /\ tdf[2].credit_limit = Null /\ tdf[2].bill_to_customer_id = Cell(1)
  /\ tdf[3].credit_limit = Null /\ tdf[3].bill_to_customer_id = Cell(3)
  /\ Imputed(2) = tdf[1].credit_limit
  /\ Imputed(3) = BatchMean
  /\ BatchMean # tdf[1].credit_limit

\* the credit_limit column once the parents' values are filled in
ParentFilled ==
  [ i \in DOMAIN tdf |->
      IF tdf[i].credit_limit # Null \/ Parents(i) = {} THEN tdf[i].credit_limit
      ELSE tdf[CHOOSE j \in Parents(i) : TRUE].credit_limit ]

\* C19 as stated: the value that fills the credit limits still null after
\* the parent fill is the mean of the credit_limit column as it stands
\* once the parents' values are filled in.
C19_MeanTakenAfterParentFill ==
  ( entry = "impute" /\ pc = "done" /\ tdone[1].stage = "_impute_credit_limit" )
  => /\ tdone[1].avg_credit = Mean(ParentFilled)
     /\ \A i \in DOMAIN tdf : ParentFilled[i] = Null => Imputed(i) = Mean(ParentFilled)

\* C19, amended: the fallback mean is taken before the parent fill, from
\* the credit limits the batch came with, and applied after it: the value
\* that fills the credit limits still null after the parent fill is the
\* mean of the credit limits that were not null in the input, in which the
\* values the parent fill puts in do not count.
C19_MeanTakenBeforeParentFill ==
  ( entry = "impute" /\ pc = "done" /\ tdone[1].stage = "_impute_credit_limit" )
  => /\ tdone[1].avg_credit = BatchMean
     /\ \A i \in DOMAIN tdf : ParentFilled[i] = Null => Imputed(i) = BatchMean

\* a batch in which the parent fill changes the mean: the customer whose
\* credit limit is still null after it got the mean of the input
C19_Witness ==
  /\ entry = "impute"
  /\ pc = "done"
  /\ tdone[1].stage = "_impute_credit_limit"
  /\ BatchMean # Null
  /\ Mean(ParentFilled) # BatchMean
  /\ \E i \in DOMAIN tdf : ParentFilled[i] = Null /\ Imputed(i) = BatchMean

\* the email the name of a customer stands for: the pieces of the name
\* that are neither the suffix nor a space, in lower case, between 'info@'
\* and '.com'
EmailOf(name) ==
  <<"info@">>
  \o [ i \in DOMAIN SelectSeq(name, LAMBDA t : t \notin {HeadOffice, " "}) |->
         LET t == SelectSeq(name, LAMBDA u : u \notin {HeadOffice, " "})[i]
         IN IF t = "T" THEN "t" ELSE t ]
  \o <<".com">>

C21_DeliveryColumnsNeverNull ==
  ( entry = "assemble" /\ pc = "done" ) =>
    \A i \in DOMAIN ret :
      \A c \in {"delivery_method", "delivery_address_additional", "delivery_street_address"} :
        ret[i][c] # Null

\* C22: for every Gold assembler, of the columns of one name its join step
\* produces exactly the first survives and a log entry lists the names
\* removed; the table handed to column selection has pairwise distinct
\* column names.
C22_JoinLeavesDistinctColumnNames ==
  ( entry = "assemble" /\ pc = "select" ) =>
    LET joined  == tdone[1].value
        merged  == tdone[1].merged.cols
        places  == [ i \in DOMAIN merged |-> i ]
        first   == SelectSeq(places, LAMBDA i : \A j \in 1..(i - 1) : merged[j] # merged[i])
        later   == SelectSeq(places, LAMBDA i : \E j \in 1..(i - 1) : merged[j] = merged[i])
        removed == [ k \in DOMAIN later |-> merged[later[k]] ]
    IN /\ \A i, j \in DOMAIN joined.cols : joined.cols[i] = joined.cols[j] => i = j
       /\ joined.cols = [ k \in DOMAIN first |-> merged[first[k]] ]
       /\ joined.keys = tdone[1].merged.keys
       /\ removed # <<>> =>
            \E l \in DOMAIN tdone[1].log :
              tdone[1].log[l] = "WARNING [JOIN] Removed duplicate columns: "
                                  \o ListRepr(removed, 1)

\* the purchases fact was joined: the last merge gave package_type_id twice,
\* the table handed on has it once
C22_Witness ==
  /\ entry = "assemble"
  /\ pc = "select"
  /\ tcls.cls = "FactPurchasesTransformer"
  /\ Cardinality({ i \in DOMAIN tdone[1].merged.cols :
                     tdone[1].merged.cols[i] = "package_type_id" }) = 2
  /\ Cardinality({ i \in DOMAIN tdone[1].value.cols :
                     tdone[1].value.cols[i] = "package_type_id" }) = 1
  /\ "WARNING [JOIN] Removed duplicate columns: ['package_type_id']"
       \in { tdone[1].log[l] : l \in DOMAIN tdone[1].log }

C24_EmptyReferenceGivesNulls ==
  /\ ( entry = "assemble" /\ tdone # <<>> /\ tdone[1].stage = "build" ) =>
       LET primary ==
             CASE tcls.cls = "DimCustomerTransformer" -> "sales/customers.parquet"
               [] tcls.cls = "DimGeographyTransformer" -> "dimensions/provinces.parquet"
               [] tcls.cls = "DimPeopleTransformer" -> "dimensions/people.parquet"
               [] tcls.cls = "DimStockItemTransformer" -> "dimensions/stock_items.parquet"
               [] tcls.cls = "DimSupplierTransformer" -> "purchasing/suppliers.parquet"
               [] tcls.cls = "FactOrdersTransformer" -> "sales/orders.parquet"
               [] tcls.cls = "FactPurchasesTransformer" -> "purchasing/purchase_orders.parquet"
           norows == { p \in DOMAIN fs : fs[p].kind = "file" /\ fs[p].keys = {} }
       IN ( norows # {} /\ primary \notin norows ) =>
            /\ pc = "select"
            /\ exc = "none"
            /\ tdone[1].value.keys = fs[primary].keys
  /\ ( /\ entry = "assemble"
       /\ pc \in {"returned", "failed"}
       /\ \E t \in {"delivery_methods", "provinces", "countries", "cities", "people"} :
            tdf[t] = <<>> ) =>
         /\ pc = "returned"
         /\ exc = "none"
         /\ Len(ret) = Len(tdf.customers)
         /\ \A i \in DOMAIN ret :
              /\ ret[i].customer_id = tdf.customers[i].customer_id
              /\ tdf.delivery_methods = <<>> => ret[i].delivery_method = Null
              /\ tdf.provinces = <<>> => ret[i].state_name = Null
              /\ tdf.countries = <<>> => ret[i].country = Null
              /\ tdf.cities = <<>> => ret[i].city = Null
              /\ tdf.people = <<>> =>
                   /\ ret[i].contact_full_name = Cell(<<"Head Office">>)
                   /\ ret[i].contact_email = Cell(<<"info@", "t", "b", ".com">>)

\* DimCustomerTransformer has transformed two customers with a people table
\* without rows and a delivery_methods table that has the customers' method
C24_Witness ==
  /\ entry = "assemble"
  /\ pc = "returned"
  /\ tdf.people = <<>>
  /\ tdf.delivery_methods # <<>>
  /\ Len(tdf.customers) = 2
  /\ Len(ret) = 2
  /\ ret[2].contact_full_name = Cell(<<"Head Office">>)
  /\ ret[2].delivery_method = Cell("Post")

\* C25: in the cast stage of every Silver transformer a value the cast
\* cannot parse, be it a date for _to_datetime or a number for the cast to
\* the nullable integer type, becomes null and no exception is raised.
C25_UnparsableValueBecomesNull ==
  ( entry = "cast" /\ pc \in {"done", "raised"} ) =>
    LET self == ClassOf(tcls.cls, tcls.dim)
    IN \A i \in DOMAIN self.cast :
         LET col == self.cast[i][2]
         IN ( /\ self.cast[i][1] \in {"datetime", "datetime_if_present", "Int64"}
              /\ col \in DOMAIN tdf[1]
              /\ tdf[1][col] \in {Cell("abc"), Cell("1.5")} ) =>
              /\ exc = "none"
              /\ tdone[1].value[1][col] = Null

\* the columns the cast and null-validation hooks of a bespoke Silver class
\* read by name
HookColumns(self) ==
  { self.cast[i][2] : i \in { j \in DOMAIN self.cast : self.cast[j][1] # "datetime_if_present" } }
  \cup { self.expected[i] : i \in DOMAIN self.expected }
  \cup { self.required[i] : i \in DOMAIN self.required }

\* C26: when a column that the cast or the null-validation hook of a bespoke
\* Silver transformer names is wholly null in a source with rows, the
\* drop-empty step removes it and the hook raises on the missing column:
\* run() raises KeyError and writes nothing, and the orchestrator logs the
\* transformer FAILED and records it among the failed.
C26_AllNullHookColumnFailsRun ==
  \A k \in DOMAIN hist :
    LET h    == hist[k]
        self == ClassOf(h.obj.cls, h.obj.dim)
    IN ( /\ RunOf(h.obj) = "SilverTransformer"
         /\ ~ Falsy(h.obj.ofn)
         /\ h.bronze.kind = "file"
         /\ h.bronze.keys # {}
         /\ \E c \in h.bronze.allnull : RenameGet(self.rename, c) \in HookColumns(self) )
       => /\ h.exc = "KeyError"
          /\ h.got.transform = "KeyError"
          /\ "save_silver" \notin { h.calls[i] : i \in DOMAIN h.calls }
          /\ h.written = <<>>
          /\ h.changed = {}
          /\ entry = "_run_transformers" =>
               /\ runlog[k] = RunLine(h.wave, h.obj.cls, "KeyError")
               /\ \E j \in DOMAIN failed : failed[j] = h.obj.cls

\* StockItemTransformer has run on an export with rows whose Barcode column
\* is wholly null, and is the one failure of the list
C26_Witness ==
  /\ entry = "_run_transformers"
  /\ Len(hist) = 1
  /\ hist[1].obj.cls = "StockItemTransformer"
  /\ ~ Falsy(hist[1].obj.ofn)
  /\ hist[1].bronze.keys # {}
  /\ "Barcode" \in hist[1].bronze.allnull
  /\ hist[1].exc = "KeyError"
  /\ failed = <<"StockItemTransformer">>

\* C27: the orchestrator counts a transformer as failed exactly when its
\* run() raised.  A run() that returns without saving, because the load or
\* the transform gave an empty table, is logged OK and counted as
\* succeeded, so the count of the succeeded is at least, and can exceed,
\* the number of files written.
C27_FailedIffRunRaised ==
  entry = "_run_transformers" =>
    /\ Len(failed) = Cardinality({ k \in DOMAIN hist : hist[k].exc # "none" })
    /\ \A k \in DOMAIN hist :
         /\ hist[k].exc # "none" =>
              /\ runlog[k].status = "FAILED"
              /\ \E j \in DOMAIN failed : failed[j] = hist[k].obj.cls
         /\ hist[k].exc = "none" =>
              /\ runlog[k] = RunLine(label, hist[k].obj.cls, "none")
              /\ runlog[k].status = "OK"
         /\ hist[k].written # <<>> => hist[k].exc = "none"
    /\ pc = "done" =>
         /\ ret = <<failed>>
         /\ Len(transformers) - Len(ret[1]) = Succeeded(hist)
         /\ Succeeded(hist) >= Cardinality({ k \in DOMAIN hist : hist[k].written # <<>> })

\* _run_transformers has returned from a list of two: one run() aborted on a
\* source without rows, one saved its file; nothing is counted as failed, and
\* two succeeded for one file written
C27_Witness ==
  /\ entry = "_run_transformers"
  /\ pc = "done"
  /\ Len(hist) = 2
  /\ hist[1].exc = "none"
  /\ hist[1].found = "no rows"
  /\ hist[1].written = <<>>
  /\ hist[2].written # <<>>
  /\ failed = <<>>
  /\ Succeeded(hist) = 2
  /\ Cardinality({ k \in DOMAIN hist : hist[k].written # <<>> }) = 1

\* C28: a run() that stops on an empty load, raises, or has its save
\* skipped leaves the data directory as it found it, the file of an earlier
\* pipeline run at its output path included; a Gold assembler run after it
\* loads that earlier file.
C28_UnwrittenRunKeepsEarlierFile ==
  /\ \A k \in DOMAIN hist : hist[k].written = <<>> => hist[k].changed = {}
  /\ hist # <<>> =>
       LET k    == Len(hist)
           h    == hist[k]
           path == SilverPath(StockItemTransformer)
       IN ( /\ h.obj.cls = "DimStockItemTransformer"
            /\ ~ Falsy(h.obj.ofn)
            /\ \E j \in 1..(k - 1) :
                 /\ hist[j].obj.cls = "StockItemTransformer"
                 /\ ~ Falsy(hist[j].obj.ofn)
            /\ \A j \in 1..(k - 1) : hist[j].written # <<path>> )
          => /\ fs[path].kind = "file"
             /\ fs[path].gen = "old"
             /\ h.log[2] = "INFO [LOAD] Loaded"
             /\ h.got.joined.exc = "none" => h.got.joined.keys = fs[path].keys

\* StockItemTransformer has raised on an export whose Barcode column is
\* wholly null, and DimStockItemTransformer, run after it, has loaded the
\* stock_items.parquet of an earlier pipeline run and written its table
C28_Witness ==
  /\ Len(hist) = 2
  /\ hist[1].obj.cls = "StockItemTransformer"
  /\ hist[1].exc = "KeyError"
  /\ hist[1].written = <<>>
  /\ hist[2].obj.cls = "DimStockItemTransformer"
  /\ hist[2].exc = "none"
  /\ hist[2].written = <<"gold/dim_stock_item.parquet">>
  /\ fs[SilverPath(StockItemTransformer)].gen = "old"

\* C29: DimensionTransformer._cast_dtypes converts to datetime exactly the
\* columns that are the renamed names of the configured date_columns and
\* are present in the table, logging each; a configured date column that is
\* absent is skipped without error, and no other column is changed.
C29_DimensionCastConvertsConfiguredDates ==
  ( entry = "cast" /\ pc \in {"done", "raised"} /\ tcls.cls = "DimensionTransformer" ) =>
    LET config == DIMENSIONS_CONFIG[tcls.dim]
        dates  == [ i \in DOMAIN config.date_columns |->
                      RenameGet(config.rename, config.date_columns[i]) ]
        there  == SelectSeq(dates, LAMBDA c : c \in DOMAIN tdf[1])
        out    == tdone[1].value
    IN /\ pc = "done"
       /\ exc = "none"
       /\ Len(out) = Len(tdf)
       /\ \A k \in DOMAIN tdf :
            /\ DOMAIN out[k] = DOMAIN tdf[k]
            /\ \A c \in DOMAIN tdf[k] :
                 out[k][c] = IF \E i \in DOMAIN there : there[i] = c
                             THEN ( IF tdf[k][c] = Cell("2013-01-01")
                                    THEN Cell("Timestamp('2013-01-01')")
                                    ELSE Null )
                             ELSE tdf[k][c]
       /\ tdone[1].log = [ i \in DOMAIN there |-> "INFO [TRANSFORM] Cast to datetime: " \o there[i] ]

\* DimensionTransformer("colors") has cast a table without valid_to: valid_from
\* is converted, the other column is as it was
C29_Witness ==
  /\ entry = "cast"
  /\ pc = "done"
  /\ tcls.cls = "DimensionTransformer"
  /\ tcls.dim = "colors"
  /\ DOMAIN tdf[1] = {"valid_from", "other"}
  /\ tdf[1].valid_from = Cell("2013-01-01")
  /\ tdone[1].value[1].valid_from = Cell("Timestamp('2013-01-01')")
  /\ tdone[1].value[1].other = tdf[1].other
  /\ tdone[1].log = <<"INFO [TRANSFORM] Cast to datetime: valid_from">>

\* no two customers of the batch tdf have the same customer_id
UniqueCustomerIds ==
  \A i, j \in DOMAIN tdf : tdf[i].customer_id = tdf[j].customer_id => i = j

\* the customers of the batch tdf billed to a customer_id that more than
\* one customer has
BilledToRepeated ==
  { i \in DOMAIN tdf :
      \E j, k \in DOMAIN tdf :
        /\ j # k
        /\ tdf[j].customer_id = tdf[i].bill_to_customer_id
        /\ tdf[k].customer_id = tdf[i].bill_to_customer_id }

\* C30: for a table in which the customer_id values are unique,
\* _impute_credit_limit returns the same rows in the same order with the
\* same columns, the temporary parent_credit_limit column removed, and
\* changes only credit_limit values that were null; when customer_id values
\* repeat, the self-join on bill_to_customer_id multiplies rows: a customer
\* comes out once for every customer that has the customer_id it is billed
\* to.
C30_UniqueIdsKeepRows ==
  ( entry = "impute_repeated" /\ pc = "done" ) =>
    LET out == tdone[1].value
    IN /\ \A k \in DOMAIN out : DOMAIN out[k] = DOMAIN tdf[1]
       /\ UniqueCustomerIds =>
            /\ Len(out) = Len(tdf)
            /\ \A i \in DOMAIN tdf :
                 /\ out[i].customer_id = tdf[i].customer_id
                 /\ out[i].bill_to_customer_id = tdf[i].bill_to_customer_id
                 /\ tdf[i].credit_limit # Null => out[i].credit_limit = tdf[i].credit_limit
       /\ Len(out) = Cardinality({ i \in DOMAIN tdf : Parents(i) = {} })
                     + Cardinality({ p \in (DOMAIN tdf) \X (DOMAIN tdf) : p[2] \in Parents(p[1]) })
       /\ Len(out) > Len(tdf) <=> BilledToRepeated # {}

\* a batch of three customers with the customer_id 1, 2, 3 came out row for
\* row and without parent_credit_limit: customer 2 with the credit limit of
\* customer 1, customer 3 as it was
C30_Witness ==
  /\ entry = "impute_repeated"
  /\ pc = "done"
  /\ Len(tdf) = 3
  /\ UniqueCustomerIds
  /\ tdf[1].credit_limit # Null
  /\ tdf[2].credit_limit = Null /\ tdf[2].bill_to_customer_id = Cell(1)
  /\ tdf[3].credit_limit # Null /\ tdf[3].credit_limit # tdf[1].credit_limit
  /\ Len(tdone[1].value) = 3
  /\ tdone[1].value[2].credit_limit = tdf[1].credit_limit
  /\ tdone[1].value[3] = tdf[3]
  /\ DOMAIN tdone[1].value[1] = {"customer_id", "bill_to_customer_id", "credit_limit"}

====
